---- MODULE Spec2Model ----
(***************************************************************************)
(* Depth pipeline scripts of the repository.                               *)
(*                                                                         *)
(* src/process_depth_npz.py: main() (input files, fps / target_frames /    *)
(* target_duration, metadata update, export.zip) and process_depth_npz     *)
(* (archive, array shape, transform, per-scene statistics, scene-relative  *)
(* normalization to 8 bit, frame-count reconciliation, encoder).           *)
(* src/create_depth_npz.py: concatenation of the scenes' depth arrays.     *)
(* src/process_scene_frames_da3.py: frame extraction, da3 run and the      *)
(* frame-count verification.                                               *)
(* src/update_scene_depth_metadata.py: the per-scene depth statistics      *)
(* written to metadata.json.                                               *)
(*                                                                         *)
(* Number representation.  Transformed depth values are floats in the      *)
(* code; here they lie on an integer grid.  Timestamps are multiples       *)
(* of 1/TsDen second, held as their numerator.  Statistics are             *)
(* held in hundredths (p_min 2.0 is 200) so that the 35th percentile and   *)
(* the sentinel 0.35 are integers.  An optional value (Python None or a    *)
(* value) is the empty set or a singleton.                                 *)
(***************************************************************************)
EXTENDS Integers, Sequences, FiniteSets, TLC

\* ---------------------------------------------------------------- bounds
MaxFrames == 2
MaxScenes == 3
MaxTs == 3
TsDen == 2
MaxPad == 5
MaxRampFrames == 32
MaxMainFrames == 3
MaxAggScenes == 3
MaxSceneFrames == 2
MaxDim == 3
MaxNdim == 4
MaxDa3Frames == 3
MaxMetaScenes == 2

\* ------------------------------------------------------ program constants
DefaultFps == 24
EpsDen == 1000000
SentinelMin == 0
SentinelMax == 100
SentinelScreenDist == 35
Percentile == 35
UInt8Max == 255
DoubleFracBits == 52
DefaultHeight == 308
DefaultWidth == 728
FlatValue == 100
DefaultBlurSigma == 7
LogBaseTen == 10
DefaultSharpen == 4
DefaultMinDepth == 100
DefaultMaxDepth == 1000
DefaultScreenDist == 300

FpsSet == {1, 2}

\* the pixel positions of a frame (a 1 x 2 image)
Pixels == {1, 2}

\* the grid of transformed depth values of the small arrays
DepthValues == {0, 1, 2}

VARIABLES
    pc,                    \* position in main / process_depth_npz
    processed_frames,      \* transformed frames, before normalization
    num_frames,
    scene_timestamps,      \* optional list of timestamp numerators
    fps,
    target_frames,         \* optional
    target_duration,       \* optional
    processed_scene_stats, \* [min_depths, max_depths, screen_dists]
    normalized,            \* the 8-bit frame array
    pre_reconcile,         \* history: normalized as it was before reconciliation
    ffmpeg_in,             \* optional: what was piped to the encoder
    exception,             \* optional: the exception that ended the call
    args_fps,              \* main: --fps (optional)
    metadata,              \* main: metadata.json [fps, scene_timestamps]
    reference              \* main: the reference video as ffprobe sees it

\* create_depth_npz.py
VARIABLES
    agg_pc,                \* position in create_depth_npz / its main
    agg_files,             \* which of metadata.json and scenes/ exist
    scenes,                \* what the scene directories hold, in scene order
    scene_i,               \* loop variable i (the scene being looked at)
    all_depths,            \* list of arrays appended so far
    all_confs,
    total_frames,
    output_npz,            \* optional: the dictionary saved to depth.npz
    agg_error,             \* optional: the error printed or the exception raised
    exit_status            \* optional: the exit status of the script

aggVars == <<agg_pc, agg_files, scenes, scene_i, all_depths, all_confs,
             total_frames, output_npz, agg_error, exit_status>>

\* process_scene_frames_da3.py
VARIABLES
    da3_pc,                \* position in main
    rgb_pts,               \* optional: the number of PTS values read
    frame_files,           \* optional: the number of extracted frame files
    da3_npz,               \* optional: the npz moved to --output-npz
    num_depth_frames,      \* optional
    pts_file,              \* optional: the number of PTS values in rgb_pts.npy
    timebase_file,         \* whether rgb_timebase.txt was written
    da3_report,            \* optional: what the failure reports
    da3_exit               \* optional: the exit status of the script

da3Vars == <<da3_pc, rgb_pts, frame_files, da3_npz, num_depth_frames, pts_file,
             timebase_file, da3_report, da3_exit>>

\* update_scene_depth_metadata.py
VARIABLES
    usm_pc,                \* position in main / update_metadata_with_depth_stats
    usm_files,             \* which of the output directory, metadata.json and scenes/ exist
    usm_metadata,          \* metadata.json as it is read (None: the key is absent)
    usm_scenes,            \* what the scene directories hold, in scene order
    scene_count,
    usm_i,                 \* loop variable i
    scene_min_depths,
    scene_max_depths,
    scene_screen_dists,
    usm_written,           \* optional: the metadata written back
    usm_exit               \* optional: the exit status of the script

usmVars == <<usm_pc, usm_files, usm_metadata, usm_scenes, scene_count, usm_i,
             scene_min_depths, scene_max_depths, scene_screen_dists, usm_written,
             usm_exit>>

\* the other scripts
otherScripts == <<aggVars, da3Vars, usmVars>>

\* process_depth_npz.py: the input folder, the archive and the transform
VARIABLES
    files,                 \* main: which input files exist
    args_export,           \* main: --export
    archive,               \* depth.npz: its keys and the shape of 'depth'
    depths,                \* the depth array along its frame axis
    height,
    width,
    blur_sigma,
    log_base,
    sharpen,               \* numerator over SharpenDen
    message,               \* optional: what the raised exception reports
    metadata_before,       \* main: the keys of metadata.json that main does not read
    metadata_out,          \* optional: what was written back to metadata.json
    export_zip             \* optional: the members of export.zip

loadVars == <<files, args_export, archive, depths, height, width, blur_sigma,
              log_base, sharpen, metadata_before, metadata_out, export_zip>>

\* the variables of the depth post-processing call and of its main()
procVars == <<pc, processed_frames, num_frames, scene_timestamps, fps, target_frames,
              target_duration, processed_scene_stats, normalized, pre_reconcile,
              ffmpeg_in, exception, args_fps, metadata, reference>>

\* everything outside the depth post-processing call
auxVars == <<otherScripts, loadVars, message>>

\* what create_depth_npz.py leaves alone
notAgg == <<procVars, loadVars, message, da3Vars, usmVars>>

\* what process_scene_frames_da3.py leaves alone
notDa3 == <<procVars, loadVars, message, aggVars, usmVars>>

\* what update_scene_depth_metadata.py leaves alone
notUsm == <<procVars, loadVars, message, aggVars, da3Vars>>

vars == <<procVars, auxVars>>

\* --------------------------------------------------------------- helpers
None == {}

Some(x) == {x}

The(o) == CHOOSE x \in o : TRUE

Max2(a, b) == IF a >= b THEN a ELSE b

Min2(a, b) == IF a <= b THEN a ELSE b

SetMin(S) == CHOOSE x \in S : \A y \in S : x <= y

SetMax(S) == CHOOSE x \in S : \A y \in S : x >= y

\* Python's `x and len(x) > k` for an optional list: None and [] are both falsy.
Truthy(ts) == ts # None /\ Len(The(ts)) > 0

TsList(ts) == IF ts = None THEN <<>> ELSE The(ts)

\* int(x / d) for d > 0: Python's int() truncates toward zero.
TruncDiv(x, d) == IF x >= 0 THEN x \div d ELSE -((-x) \div d)

\* faulty variant: round(ts * fps) instead of int(ts * fps)
FrameIndexRound(tsnum, rate) == (2 * tsnum * rate + TsDen) \div (2 * TsDen)

\* int(ts * fps), ts = tsnum / TsDen seconds.
FrameIndex(tsnum, rate) == TruncDiv(tsnum * rate, TsDen)

\* max(0, min(x, num_frames))
Clamp(x, n) == Max2(0, Min2(x, n))

\* [int(ts * fps) for ts in scene_timestamps] + [num_frames]
SceneFrameIndices(ts, rate, n) ==
    [i \in 1..(Len(ts) + 1) |-> IF i <= Len(ts) THEN FrameIndex(ts[i], rate) ELSE n]

SceneStart(ts, rate, n, i) == Clamp(SceneFrameIndices(ts, rate, n)[i], n)

SceneEnd(ts, rate, n, i) == Clamp(SceneFrameIndices(ts, rate, n)[i + 1], n)

\* The values of frames[start:end] (0-based, end exclusive), as a set.
SliceValues(frames, start, end) ==
    {frames[f][p] : f \in (start + 1)..end, p \in Pixels}

\* k-th smallest (0-based) element of the flattened frames[start:end].
CountBelow(frames, start, end, v) ==
    Cardinality({<<f, p>> \in ((start + 1)..end) \X (Pixels) : frames[f][p] < v})

CountUpTo(frames, start, end, v) ==
    Cardinality({<<f, p>> \in ((start + 1)..end) \X (Pixels) : frames[f][p] <= v})

KthSmallest(frames, start, end, k) ==
    CHOOSE v \in SliceValues(frames, start, end) :
        CountBelow(frames, start, end, v) <= k /\ k < CountUpTo(frames, start, end, v)

\* faulty variant: the lower neighbour, without interpolation
Percentile35Lower(frames, start, end) ==
    100 * KthSmallest(frames, start, end,
                      (Percentile * ((end - start) * Cardinality(Pixels) - 1)) \div 100)

\* np.percentile(scene_data, 35), linear interpolation, in hundredths.
Percentile35(frames, start, end) ==
    LET n    == (end - start) * Cardinality(Pixels)
        pos  == Percentile * (n - 1)
        lo   == pos \div 100
        frac == pos % 100
        a    == KthSmallest(frames, start, end, lo)
        b    == IF frac = 0 THEN a ELSE KthSmallest(frames, start, end, lo + 1)
    IN  100 * a + frac * (b - a)

\* ------------------------------------------- statistics (lines 107 - 140)
\* One scene's (min, max, 35th percentile), or the sentinel for an empty range.
\* faulty variant: `if start_frame > end_frame:`
StatsSkipStrict(start_frame, end_frame) == start_frame > end_frame

\* `if start_frame >= end_frame:` of the statistics loop (line 125)
StatsSkip(start_frame, end_frame) == start_frame >= end_frame

\* faulty variant: minimum and maximum are taken over the whole array
SceneStatGlobal(frames, ts, rate, n, i) ==
    LET start_frame == SceneStart(ts, rate, n, i)
        end_frame   == SceneEnd(ts, rate, n, i)
    IN  IF StatsSkip(start_frame, end_frame)
        THEN [min |-> SentinelMin, max |-> SentinelMax, sd |-> SentinelScreenDist]
        ELSE [min |-> 100 * SetMin(SliceValues(frames, 0, n)),
              max |-> 100 * SetMax(SliceValues(frames, 0, n)),
              sd  |-> Percentile35(frames, start_frame, end_frame)]

\* lines 121 - 135: the three statistics of scene i
SceneStat(frames, ts, rate, n, i) ==
    LET start_frame == SceneStart(ts, rate, n, i)
        end_frame   == SceneEnd(ts, rate, n, i)
    IN  IF StatsSkip(start_frame, end_frame)
        THEN [min |-> SentinelMin, max |-> SentinelMax, sd |-> SentinelScreenDist]
        ELSE [min |-> 100 * SetMin(SliceValues(frames, start_frame, end_frame)),
              max |-> 100 * SetMax(SliceValues(frames, start_frame, end_frame)),
              sd  |-> Percentile35(frames, start_frame, end_frame)]

EmptyStats == [min_depths |-> <<>>, max_depths |-> <<>>, screen_dists |-> <<>>]

StatsOf(frames, tsopt, rate, n) ==
    IF Truthy(tsopt)
    THEN LET ts == The(tsopt)
         IN  [min_depths   |-> [i \in 1..Len(ts) |-> SceneStat(frames, ts, rate, n, i).min],
              max_depths   |-> [i \in 1..Len(ts) |-> SceneStat(frames, ts, rate, n, i).max],
              screen_dists |-> [i \in 1..Len(ts) |-> SceneStat(frames, ts, rate, n, i).sd]]
    ELSE EmptyStats

\* np.min / np.max / np.percentile of a zero-size slice raise ValueError:
\* some scene that is not skipped has no frame.
StatsRaises(frames, tsopt, rate, n) ==
    /\ Truthy(tsopt)
    /\ \E i \in 1..Len(The(tsopt)) :
           /\ ~StatsSkip(SceneStart(The(tsopt), rate, n, i), SceneEnd(The(tsopt), rate, n, i))
           /\ SliceValues(frames, SceneStart(The(tsopt), rate, n, i),
                          SceneEnd(The(tsopt), rate, n, i)) = {}

\* ---------------------------------------- normalization (lines 142 - 182)
\* faulty variant: the range is floored at 1 instead of 1e-6
DepthRangeUnit(p_max, p_min) ==
    IF p_max - p_min >= 1
    THEN [num |-> p_max - p_min, den |-> 1]
    ELSE [num |-> 1, den |-> 1]

\* depth_range = max(p_max - p_min, 1e-6), as the fraction num / den.
DepthRange(p_max, p_min) ==
    IF (p_max - p_min) * EpsDen >= 1
    THEN [num |-> p_max - p_min, den |-> 1]
    ELSE [num |-> 1, den |-> EpsDen]

Clip(x, lo, hi) == IF x < lo THEN lo ELSE IF x > hi THEN hi ELSE x

\* faulty variant: scaled by 256 and not clipped
NormPixelScale256(v, p_min, rng) == ((v - p_min) * rng.den * 256) \div rng.num

\* ((v - p_min) / depth_range * 255.0).clip(0, 255).astype(np.uint8):
\* the cast truncates, which on a clipped (non-negative) value is the floor.
NormPixel(v, p_min, rng) ==
    Clip(((v - p_min) * rng.den * UInt8Max) \div rng.num, 0, UInt8Max)

NormFrame(frame, p_min, rng) ==
    [p \in Pixels |-> NormPixel(frame[p], p_min, rng)]

\* faulty variant: the output array starts filled with 255
ZeroFramesWhite(n) == [f \in 1..n |-> [p \in Pixels |-> UInt8Max]]

\* np.zeros_like(processed_frames, dtype=np.uint8)
ZeroFrames(n) == [f \in 1..n |-> [p \in Pixels |-> 0]]

\* `if start_frame >= end_frame: continue` of the normalization loop (line 161)
NormSkip(start_frame, end_frame) == start_frame >= end_frame

\* faulty variant: every scene is scaled with the minimum and maximum of the whole array
RECURSIVE NormalizeScenesGlobalStats(_, _, _, _, _, _)
NormalizeScenesGlobalStats(out, frames, ts, rate, n, i) ==
    IF i > Len(ts) THEN out
    ELSE LET start_frame == SceneStart(ts, rate, n, i)
             end_frame   == SceneEnd(ts, rate, n, i)
         IN  IF NormSkip(start_frame, end_frame)
             THEN NormalizeScenesGlobalStats(out, frames, ts, rate, n, i + 1)
             ELSE LET p_min == SetMin(SliceValues(frames, 0, n))
                      p_max == SetMax(SliceValues(frames, 0, n))
                      rng   == DepthRange(p_max, p_min)
                      new   == [f \in 1..n |->
                                   IF start_frame < f /\ f <= end_frame
                                   THEN NormFrame(frames[f], p_min, rng)
                                   ELSE out[f]]
                  IN  NormalizeScenesGlobalStats(new, frames, ts, rate, n, i + 1)

\* The loop over the scenes, from scene i on: each non-empty scene overwrites
\* its own slice of the output, in scene order.
RECURSIVE NormalizeScenes(_, _, _, _, _, _)
NormalizeScenes(out, frames, ts, rate, n, i) ==
    IF i > Len(ts) THEN out
    ELSE LET start_frame == SceneStart(ts, rate, n, i)
             end_frame   == SceneEnd(ts, rate, n, i)
         IN  IF NormSkip(start_frame, end_frame)
             THEN NormalizeScenes(out, frames, ts, rate, n, i + 1)
             ELSE LET p_min == SetMin(SliceValues(frames, start_frame, end_frame))
                      p_max == SetMax(SliceValues(frames, start_frame, end_frame))
                      rng   == DepthRange(p_max, p_min)
                      new   == [f \in 1..n |->
                                   IF start_frame < f /\ f <= end_frame
                                   THEN NormFrame(frames[f], p_min, rng)
                                   ELSE out[f]]
                  IN  NormalizeScenes(new, frames, ts, rate, n, i + 1)

GlobalNormalize(frames, n) ==
    LET p_min == SetMin(SliceValues(frames, 0, n))
        p_max == SetMax(SliceValues(frames, 0, n))
        rng   == DepthRange(p_max, p_min)
    IN  [f \in 1..n |-> NormFrame(frames[f], p_min, rng)]

\* faulty variant: `scene_timestamps and len(scene_timestamps) > 0`, as on line 114
PerSceneModeAnyList(tsopt) == tsopt # None /\ Len(The(tsopt)) > 0

\* `scene_timestamps and len(scene_timestamps) > 1`
PerSceneMode(tsopt) == tsopt # None /\ Len(The(tsopt)) > 1

\* np.min of a zero-size scene slice raises ValueError
NormalizeRaises(frames, tsopt, rate, n) ==
    /\ PerSceneMode(tsopt)
    /\ \E i \in 1..Len(The(tsopt)) :
           /\ ~NormSkip(SceneStart(The(tsopt), rate, n, i), SceneEnd(The(tsopt), rate, n, i))
           /\ SliceValues(frames, SceneStart(The(tsopt), rate, n, i),
                          SceneEnd(The(tsopt), rate, n, i)) = {}

NormalizedOf(frames, tsopt, rate, n) ==
    IF PerSceneMode(tsopt)
    THEN NormalizeScenes(ZeroFrames(n), frames, The(tsopt), rate, n, 1)
    ELSE GlobalNormalize(frames, n)

\* --------------------------------------- reconciliation (lines 184 - 197)
RECURSIVE Pow2(_)
Pow2(e) == IF e = 0 THEN 1 ELSE 2 * Pow2(e - 1)

\* 2^e mod d
RECURSIVE PowMod2(_, _)
PowMod2(e, d) == IF e = 0 THEN 1 % d ELSE (2 * PowMod2(e - 1, d)) % d

\* floor(log2(a / b)) for a >= b >= 1
RECURSIVE Log2Floor(_, _)
Log2Floor(a, b) == IF 2 * b <= a THEN 1 + Log2Floor(a, 2 * b) ELSE 0

\* the least c with 2^c >= m, for m >= 1
RECURSIVE CeilLog2From(_, _)
CeilLog2From(m, c) == IF Pow2(c) >= m THEN c ELSE CeilLog2From(m, c + 1)

\* faulty variant: the ratio of the two lengths inverted
LinspaceIndexInverted(N, T, k) ==
    IF T = 1 THEN 0 ELSE (k * (T - 1)) \div (N - 1)

\* faulty variant: the linspace values are rounded to the nearest index
LinspaceIndexRound(N, T, k) ==
    IF T = 1 THEN 0 ELSE (2 * k * (N - 1) + (T - 1)) \div (2 * (T - 1))

\* np.linspace(0, N - 1, T)[k] cast to int (k is 0-based, T < N).  numpy
\* computes step = (N-1)/(T-1) and y[k] = k * step in IEEE doubles and
\* overwrites the last element with N - 1; astype(int) truncates.  With
\* q = (N-1)/(T-1) > 1 and m = k * q: when m is not an integer the rounding
\* errors (relative 2^-52) cannot carry y[k] across an integer, so the cast
\* gives floor(m).  When m is an integer, step = q - r / (d * 2^e) with
\* e = 52 - floor(log2 q) and r = (N-1) * 2^e mod d if that remainder is
\* below d/2 (step rounded down), and the product k * step rounds to a
\* double below m exactly when k * r / (d * 2^e) exceeds half the spacing
\* of the doubles just below m; the cast then gives m - 1.
LinspaceIndex(N, T, k) ==
    IF T = 1 THEN 0
    ELSE IF k = T - 1 THEN N - 1
    ELSE LET D == N - 1
             d == T - 1
             m == (k * D) \div d
         IN  IF k = 0 \/ (k * D) % d # 0 THEN m
             ELSE LET fq == Log2Floor(D, d)
                      r  == ((D % d) * PowMod2(DoubleFracBits - fq, d)) % d
                  IN  IF r = 0 \/ 2 * r > d THEN m
                      ELSE IF 2 * k * r * Pow2(fq + 1) > d * Pow2(CeilLog2From(m, 0))
                           THEN m - 1
                           ELSE m

\* faulty variant: a shorter target is ignored, only padding is done
ReconciledOfPadOnly(norm, n, T) ==
    IF T > n THEN norm \o [i \in 1..(T - n) |-> norm[n]] ELSE norm

\* faulty variant: the padding repeats the first frame, normalized[:1]
ReconciledOfPadFirst(norm, n, T) ==
    IF T > n
    THEN norm \o [i \in 1..(T - n) |-> norm[1]]
    ELSE [k \in 1..T |-> norm[LinspaceIndex(n, T, k - 1) + 1]]

\* The frame array after the frame-count adjustment to target T # n.
ReconciledOf(norm, n, T) ==
    IF T > n
    THEN norm \o [i \in 1..(T - n) |-> norm[n]]
    ELSE [k \in 1..T |-> norm[LinspaceIndex(n, T, k - 1) + 1]]

\* ----------------------------------------- transform (lines 79 - 105)
\* Depth values are whole numbers; a blurred value is held in units of
\* 1/ValDen, a logarithm in units of 1/LogDen, and a transformed value in
\* units of 1/(LogDen * SharpenDen).
ValDen == 4

LogDen == 16

SharpenDen == 10

\* np.e on the grid of 1/ValDen
NpE == 11

Left(p) == IF (p - 1) \in Pixels THEN p - 1 ELSE p

Right(p) == IF (p + 1) \in Pixels THEN p + 1 ELSE p

\* ndimage.gaussian_filter(depth_frame, sigma): the identity for sigma 0,
\* otherwise a weighted mean of the neighbourhood (weights 1, 2, 1 over
\* ValDen), the border reflected.
GaussianFilter(frame, sigma) ==
    [p \in Pixels |->
        IF sigma = 0 THEN ValDen * frame[p]
        ELSE frame[Left(p)] + 2 * frame[p] + frame[Right(p)]]

\* np.log(y / ValDen) for y >= ValDen, in units of 1/LogDen: the integer
\* part of the binary logarithm plus a linear interpolation of the rest
Log(y) ==
    LET e == Log2Floor(y, ValDen)
    IN  LogDen * e + (LogDen * (y - ValDen * Pow2(e))) \div (ValDen * Pow2(e))

\* np.log1p(x / ValDen)
Log1p(x) == Log(x + ValDen)

\* lines 90 - 93 and 98: log1p(x) for base e, log1p(x) / log(log_base)
\* otherwise; base and x in units of 1/ValDen
LogB(base, x) ==
    IF base = NpE THEN Log1p(x)
    ELSE (Log1p(x) * LogDen) \div Log(base)

\* faulty variant: the weights of line 99 exchanged
SharpenedSwapped(s, original_logged, logged) ==
    (SharpenDen - s) * original_logged + s * logged

\* line 99: sharpen * original_logged + (1 - sharpen) * logged
Sharpened(s, original_logged, logged) ==
    s * original_logged + (SharpenDen - s) * logged

\* faulty variant: without sharpening the unblurred logarithm is taken
ProcessedValueUnblurred(s, original_logged, logged) ==
    IF s > 0 THEN Sharpened(s, original_logged, logged)
    ELSE SharpenDen * original_logged

\* lines 97 - 101
ProcessedValue(s, original_logged, logged) ==
    IF s > 0 THEN Sharpened(s, original_logged, logged)
    ELSE SharpenDen * logged

\* lines 86 - 101 for one frame
TransformFrame(frame, sigma, base, s) ==
    LET blurred == GaussianFilter(frame, sigma)
    IN  [p \in Pixels |->
            ProcessedValue(s, LogB(base, ValDen * frame[p]), LogB(base, blurred[p]))]

\* lines 80 - 105
TransformedOf(array, sigma, base, s) ==
    [f \in 1..Len(array) |-> TransformFrame(array[f], sigma, base, s)]

\* ------------------------------------------------------------ input sets
\* the shapes of the 'depth' entry: 0 to MaxNdim axes of 1..MaxDim elements
ShapeSet == UNION {[1..k -> 1..MaxDim] : k \in 0..MaxNdim}

KeySets == {{"depth"}, {"depth", "conf"}, {"conf"}, {}}

Archives == [keys : KeySets, shape : ShapeSet]

\* an input folder that does not exist holds no files
FileSets ==
    {f \in [folder : BOOLEAN, depth_npz : BOOLEAN, metadata : BOOLEAN, rgb : BOOLEAN] :
        ~f.folder => (~f.depth_npz /\ ~f.metadata /\ ~f.rgb)}

\* the depth values of the small input arrays
RawDepths == {0, 1, 3}

RawFrames == [Pixels -> RawDepths]

RawArrays == UNION {[1..n -> RawFrames] : n \in 1..MaxFrames}

BlurSigmas == {0, DefaultBlurSigma}

LogBases == {NpE, LogBaseTen * ValDen}

Sharpens == {0, DefaultSharpen, SharpenDen}

FrameSet == [Pixels -> DepthValues]

\* every transformed array of 1..MaxFrames frames
ArraySet == UNION {[1..n -> FrameSet] : n \in 1..MaxFrames}

\* a ramp: frame f holds the value f - 1 in every pixel (all frames differ)
Ramp(n) == [f \in 1..n |-> [p \in Pixels |-> f - 1]]

TsValues == (-1)..MaxTs

\* scene start times: strictly increasing (spec, data model)
TsLists ==
    {ts \in UNION {[1..k -> TsValues] : k \in 0..MaxScenes} :
        \A i \in 1..(Len(ts) - 1) : ts[i] < ts[i + 1]}

TsOptions == {None} \cup {Some(ts) : ts \in TsLists}

TargetOptions(n) == {None} \cup {Some(T) : T \in 0..(n + MaxPad)}

NoStats == EmptyStats

\* main() is not running: process_depth_npz is called directly
NoMetadata == [fps |-> None, scene_timestamps |-> None, readable |-> FALSE]

NoReference == [frames |-> 0, rate |-> 0, probe |-> "none"]

ProbeOutcomes == {"ok", "fail_rate", "zero_den", "fail_duration", "fail_frames"}

\* duration of a video of `frames` frames at `rate`, as a fraction of a second
Duration(frames, rate) == [num |-> frames, den |-> rate]

\* ------------------------------------------------------ create_depth_npz
\* What a scene directory holds:
\*   "npz"        an npz file that loads and has a 'depth' entry
\*   "npz_error"  an npz file whose load or 'depth' lookup raises
\*   "video"      no npz, a depth.mp4 whose frame count ffprobe prints
\*   "video_fail" no npz, a depth.mp4 for which ffprobe prints no number
\*   "none"       neither an npz nor a depth.mp4
SceneKinds == {"npz", "npz_error", "video", "video_fail", "none"}

DefaultDims == <<DefaultHeight, DefaultWidth>>

\* the (height, width) pairs of the small scene arrays
SceneDims == {DefaultDims, <<1, 2>>}

\* the depth values a really loaded scene holds
SceneValues == {1, 2}

SceneSet ==
    [kind : {"npz"}, frames : 1..MaxSceneFrames, dims : SceneDims, conf : BOOLEAN]
    \cup [kind : {"video"}, frames : 0..MaxSceneFrames, dims : {DefaultDims},
          conf : {FALSE}]
    \cup [kind : {"npz_error", "video_fail", "none"}, frames : {0},
          dims : {DefaultDims}, conf : {FALSE}]

SceneLists == UNION {[1..k -> SceneSet] : k \in 0..MaxAggScenes}

\* the values of an array of `frames` frames filled with v
FullValues(frames, v) == IF frames = 0 THEN {} ELSE {v}

\* faulty variant: the dimensions of the array appended last
PlaceholderDimsLast(arrays) ==
    IF Len(arrays) > 0 THEN arrays[Len(arrays)].dims ELSE DefaultDims

\* lines 81 - 85: h, w of all_depths[0], or 308, 728 when the list is empty
PlaceholderDims(arrays) ==
    IF Len(arrays) > 0 THEN arrays[1].dims ELSE DefaultDims

\* lines 88 - 89: np.full((num_frames, h, w), 100.0), np.ones(...)
FlatDepth(i, frames, arrays) ==
    [scene |-> i, frames |-> frames, dims |-> PlaceholderDims(arrays),
     flat |-> TRUE, values |-> FullValues(frames, FlatValue)]

FlatConf(i, frames, arrays) ==
    [scene |-> i, frames |-> frames, dims |-> PlaceholderDims(arrays),
     flat |-> TRUE, values |-> FullValues(frames, 1)]

\* lines 101 - 108: data['depth'], data['conf']
LoadedArray(i, sc) ==
    [scene |-> i, frames |-> sc.frames, dims |-> sc.dims,
     flat |-> FALSE, values |-> SceneValues]

RECURSIVE SumFrames(_)
SumFrames(arrays) ==
    IF arrays = <<>> THEN 0
    ELSE arrays[1].frames + SumFrames(Tail(arrays))

\* np.concatenate(arrays, axis=0) raises ValueError unless all arrays agree
\* in height and width
ConcatRaises(arrays) ==
    \E a, b \in 1..Len(arrays) : arrays[a].dims # arrays[b].dims

\* np.concatenate(arrays, axis=0)
Concatenate(arrays) ==
    [frames |-> SumFrames(arrays),
     dims   |-> arrays[1].dims,
     parts  |-> arrays]

AggIdle ==
    /\ agg_pc = "idle"
    /\ agg_files = [metadata |-> FALSE, scenes_dir |-> FALSE]
    /\ scenes = <<>>
    /\ scene_i = 0
    /\ all_depths = <<>>
    /\ all_confs = <<>>
    /\ total_frames = 0
    /\ output_npz = None
    /\ agg_error = None
    /\ exit_status = None

\* create_depth_npz.py is started on an existing output directory
InitAggregateVars ==
    /\ agg_pc = "start"
    /\ agg_files \in [metadata : BOOLEAN, scenes_dir : BOOLEAN]
    /\ scenes \in SceneLists
    /\ scene_i = 0
    /\ all_depths = <<>>
    /\ all_confs = <<>>
    /\ total_frames = 0
    /\ output_npz = None
    /\ agg_error = None
    /\ exit_status = None

\* lines 22 - 49, and 155 - 156 when False is returned
AggStart ==
    /\ agg_pc = "start"
    /\ IF ~agg_files.metadata
       THEN /\ agg_error' = Some("metadata.json not found")
            /\ exit_status' = Some(1)
            /\ agg_pc' = "exit"
            /\ UNCHANGED scene_i
       ELSE IF ~agg_files.scenes_dir
       THEN /\ agg_error' = Some("scenes directory not found")
            /\ exit_status' = Some(1)
            /\ agg_pc' = "exit"
            /\ UNCHANGED scene_i
       ELSE /\ agg_pc' = IF Len(scenes) = 0 THEN "concat" ELSE "loop"
            /\ scene_i' = 1
            /\ UNCHANGED <<agg_error, exit_status>>
    /\ UNCHANGED <<agg_files, scenes, all_depths, all_confs, total_frames, output_npz>>
    /\ UNCHANGED notAgg

\* lines 51 - 114: one iteration of the loop over the scenes
AggScene ==
    /\ agg_pc = "loop"
    /\ LET sc == scenes[scene_i]
       IN  CASE sc.kind = "npz" ->
                  /\ all_depths' = Append(all_depths, LoadedArray(scene_i, sc))
                  /\ total_frames' = total_frames + sc.frames
                  /\ all_confs' = IF sc.conf
                                  THEN Append(all_confs, LoadedArray(scene_i, sc))
                                  ELSE all_confs
             [] sc.kind = "video" ->
                  /\ all_depths' = Append(all_depths, FlatDepth(scene_i, sc.frames, all_depths))
                  /\ all_confs' = Append(all_confs, FlatConf(scene_i, sc.frames, all_depths))
                  /\ total_frames' = total_frames + sc.frames
             [] OTHER ->
                  UNCHANGED <<all_depths, all_confs, total_frames>>
    /\ scene_i' = scene_i + 1
    /\ agg_pc' = IF scene_i = Len(scenes) THEN "concat" ELSE "loop"
    /\ UNCHANGED <<agg_files, scenes, output_npz, agg_error, exit_status>>
    /\ UNCHANGED notAgg

\* faulty variant: `if all_confs:`
ConfSavedAny(confs, arrays) == Len(confs) > 0

\* `if all_confs and len(all_confs) == len(all_depths):` (line 126)
ConfSaved(confs, arrays) == Len(confs) > 0 /\ Len(confs) = Len(arrays)

\* lines 116 - 142 and 155 - 156
AggFinish ==
    /\ agg_pc = "concat"
    /\ agg_pc' = "exit"
    /\ IF all_depths = <<>>
       THEN /\ agg_error' = Some("No depth data found in any scene")
            /\ exit_status' = Some(1)
            /\ UNCHANGED output_npz
       ELSE IF ConcatRaises(all_depths)
               \/ (ConfSaved(all_confs, all_depths) /\ ConcatRaises(all_confs))
       THEN /\ agg_error' = Some("ValueError")
            /\ exit_status' = Some(1)
            /\ UNCHANGED output_npz
       ELSE /\ output_npz' =
                  Some([depth |-> Some(Concatenate(all_depths)),
                        conf  |-> IF ConfSaved(all_confs, all_depths)
                                  THEN Some(Concatenate(all_confs)) ELSE None])
            /\ exit_status' = Some(0)
            /\ UNCHANGED agg_error
    /\ UNCHANGED <<agg_files, scenes, scene_i, all_depths, all_confs, total_frames>>
    /\ UNCHANGED notAgg

\* ------------------------------------- failure reports and array shapes
\* what a failure reports: the text, the archive keys it lists and whether
\* the captured standard-error text of a subprocess is part of it
Report(text, keys, stderr) == [text |-> text, keys |-> keys, stderr |-> stderr]

\* faulty variant: only arrays of fewer than two axes are refused
ShapeRejectedBelowTwo(shape) == Len(shape) < 2

\* lines 62, 66, 73: neither 2 nor 3 axes
ShapeRejected(shape) == Len(shape) # 2 /\ Len(shape) # 3

\* faulty variant: the smallest of the three axes is the frame axis
LastAxisIsFramesIfSmallest(shape) ==
    shape[3] <= shape[1] /\ shape[3] <= shape[2] /\ shape[3] < Max2(shape[1], shape[2])

\* line 69 (and process_scene_frames_da3.py, line 198): the array is taken
\* as (height, width, frames)
LastAxisIsFrames(shape) == shape[3] < shape[1] /\ shape[3] < shape[2]

\* lines 62 - 76 (and process_scene_frames_da3.py, lines 193 - 203)
NumDepthFrames(shape) ==
    IF Len(shape) = 2 THEN 1
    ELSE IF LastAxisIsFrames(shape) THEN shape[3] ELSE shape[1]

FrameHeight(shape) ==
    IF Len(shape) = 2 \/ LastAxisIsFrames(shape) THEN shape[1] ELSE shape[2]

FrameWidth(shape) ==
    IF Len(shape) = 2 \/ LastAxisIsFrames(shape) THEN shape[2] ELSE shape[3]

\* --------------------------------------------- process_scene_frames_da3
Da3Idle ==
    /\ da3_pc = "idle"
    /\ rgb_pts = None
    /\ frame_files = None
    /\ da3_npz = None
    /\ num_depth_frames = None
    /\ pts_file = None
    /\ timebase_file = FALSE
    /\ da3_report = None
    /\ da3_exit = None

\* process_scene_frames_da3.py is started on a scene video
InitDa3Vars ==
    /\ da3_pc = "pts"
    /\ rgb_pts = None
    /\ frame_files = None
    /\ da3_npz = None
    /\ num_depth_frames = None
    /\ pts_file = None
    /\ timebase_file = FALSE
    /\ da3_report = None
    /\ da3_exit = None

\* sys.exit(1) after a message on stderr, or an uncaught exception
Da3Fail(text, stderr) ==
    /\ da3_pc' = "exit"
    /\ da3_exit' = Some(1)
    /\ da3_report' = Some(Report(text, {}, stderr))

\* lines 160 - 163, get_video_pts_timestamps (46 - 73): two ffprobe calls
\* with check=True, whose CalledProcessError nothing catches
Da3Pts ==
    /\ da3_pc = "pts"
    /\ \E pts_rc \in {0, 1}, tb_rc \in {0, 1}, n \in 0..MaxDa3Frames :
           IF pts_rc # 0 \/ tb_rc # 0
           THEN /\ Da3Fail("CalledProcessError", FALSE)
                /\ UNCHANGED rgb_pts
           ELSE /\ rgb_pts' = Some(n)
                /\ da3_pc' = "extract"
                /\ UNCHANGED <<da3_report, da3_exit>>
    /\ UNCHANGED <<frame_files, da3_npz, num_depth_frames, pts_file, timebase_file>>
    /\ UNCHANGED notDa3

\* lines 165 - 180, extract_frames_from_video (16 - 44)
Da3Extract ==
    /\ da3_pc = "extract"
    /\ \E returncode \in {0, 1}, k \in 0..MaxDa3Frames :
           IF returncode # 0
           THEN /\ Da3Fail("Error extracting frames", TRUE)
                /\ UNCHANGED frame_files
           ELSE /\ frame_files' = Some(k)
                /\ IF k # The(rgb_pts)
                   THEN Da3Fail("Frame extraction mismatch", FALSE)
                   ELSE /\ da3_pc' = "da3"
                        /\ UNCHANGED <<da3_report, da3_exit>>
    /\ UNCHANGED <<rgb_pts, da3_npz, num_depth_frames, pts_file, timebase_file>>
    /\ UNCHANGED notDa3

\* lines 182 - 184, process_frames_with_da3_direct (75 - 142)
Da3Run ==
    /\ da3_pc = "da3"
    /\ IF The(frame_files) = 0
       THEN /\ Da3Fail("No frame files to process", FALSE)
            /\ UNCHANGED da3_npz
       ELSE \E returncode \in {0, 1}, found \in BOOLEAN, npz \in Archives :
                IF returncode # 0
                THEN /\ Da3Fail("Error running da3 images command", TRUE)
                     /\ UNCHANGED da3_npz
                ELSE IF ~found
                THEN /\ Da3Fail("da3 output not found", FALSE)
                     /\ UNCHANGED da3_npz
                ELSE /\ da3_npz' = Some(npz)
                     /\ da3_pc' = "verify"
                     /\ UNCHANGED <<da3_report, da3_exit>>
    /\ UNCHANGED <<rgb_pts, frame_files, num_depth_frames, pts_file, timebase_file>>
    /\ UNCHANGED notDa3

\* faulty variant: only too many depth frames are an error
DepthCountMismatchAbove(n, pts) == n > pts

\* line 209: `if num_depth_frames != len(rgb_pts):`
DepthCountMismatch(n, pts) == n # pts

\* lines 186 - 214: the frame count of the output npz is verified
Da3Verify ==
    /\ da3_pc = "verify"
    /\ LET npz == The(da3_npz)
       IN  IF "depth" \notin npz.keys
           THEN /\ Da3Fail("No depth data in output npz", FALSE)
                /\ UNCHANGED num_depth_frames
           ELSE IF ShapeRejected(npz.shape)
           THEN /\ Da3Fail("Unexpected depth shape", FALSE)
                /\ UNCHANGED num_depth_frames
           ELSE /\ num_depth_frames' = Some(NumDepthFrames(npz.shape))
                /\ IF DepthCountMismatch(NumDepthFrames(npz.shape), The(rgb_pts))
                   THEN Da3Fail("da3 produced wrong number of frames", FALSE)
                   ELSE /\ da3_pc' = "save"
                        /\ UNCHANGED <<da3_report, da3_exit>>
    /\ UNCHANGED <<rgb_pts, frame_files, da3_npz, pts_file, timebase_file>>
    /\ UNCHANGED notDa3

\* lines 216 - 234: rgb_pts.npy and rgb_timebase.txt are written, main returns
Da3Save ==
    /\ da3_pc = "save"
    /\ pts_file' = rgb_pts
    /\ timebase_file' = TRUE
    /\ da3_exit' = Some(0)
    /\ da3_pc' = "exit"
    /\ UNCHANGED <<rgb_pts, frame_files, da3_npz, num_depth_frames, da3_report>>
    /\ UNCHANGED notDa3

\* ------------------------------------------ update_scene_depth_metadata
\* What an npz file of a scene holds: an archive without a 'depth' entry, a
\* file that cannot be loaded, or the frames of its 'depth' array.
UsmArrays ==
    {<<>>,
     <<[p \in Pixels |-> p]>>,
     <<[p \in Pixels |-> 3], [p \in Pixels |-> 2 * p], [p \in Pixels |-> 0]>>}

\* kind "no_depth": no 'depth' entry; "error": np.load raises; "array": loads
NpzContents ==
    {[kind |-> "no_depth", depth |-> <<>>], [kind |-> "error", depth |-> <<>>]}
    \cup {[kind |-> "array", depth |-> a] : a \in UsmArrays}

\* a scene directory: whether it exists, and what exports/mini_npz/results.npz
\* and depth_results.npz hold (None: no such file)
UsmSceneSet ==
    {[dir |-> FALSE, mini |-> None, plain |-> None]}
    \cup [dir : {TRUE},
          mini : {None, Some([kind |-> "array",
                                   depth |-> <<[p \in Pixels |-> 1],
                                               [p \in Pixels |-> 3 - p]>>])},
          plain : {None} \cup {Some(c) : c \in NpzContents}]

UsmSceneLists == UNION {[1..k -> UsmSceneSet] : k \in 0..MaxMetaScenes}

\* metadata.json: scene_count, scene_timestamps, one key the script has no
\* business with, and the three lists an earlier run may have left
UsmMetadataSet ==
    [scene_count : {None} \cup {Some(c) : c \in 0..MaxMetaScenes},
     scene_timestamps : {None} \cup {Some([i \in 1..k |-> (i - 1) * TsDen]) : k \in 0..MaxMetaScenes},
     fps : {DefaultFps},
     scene_min_depths : {None, Some(<<SentinelMin>>)},
     scene_max_depths : {None},
     scene_screen_dists : {None}]

NoUsmMetadata ==
    [scene_count |-> None, scene_timestamps |-> None, fps |-> DefaultFps,
     scene_min_depths |-> None, scene_max_depths |-> None, scene_screen_dists |-> None]

NoUsmFiles == [output_dir |-> FALSE, metadata |-> FALSE, scenes |-> FALSE]

UsmFileSets ==
    {[output_dir |-> TRUE, metadata |-> TRUE, scenes |-> TRUE],
     [output_dir |-> TRUE, metadata |-> FALSE, scenes |-> TRUE],
     [output_dir |-> TRUE, metadata |-> TRUE, scenes |-> FALSE],
     NoUsmFiles}

\* the npz file get_scene_depth_stats opens (lines 26 - 38)
NpzFile(sc) == IF sc.mini # None THEN sc.mini ELSE sc.plain

\* faulty variant: the last frame
MiddleFrameIdxLast(n) == n - 1

\* middle_frame_idx = num_frames // 2 (line 53)
MiddleFrameIdx(n) == n \div 2

\* get_scene_depth_stats (lines 23 - 64), in hundredths: None when there is no
\* npz file, no 'depth' entry, or anything raises (np.min of an array without
\* frames does)
GetSceneDepthStats(sc) ==
    IF NpzFile(sc) = None THEN None
    ELSE LET depth == The(NpzFile(sc)).depth
         IN  IF The(NpzFile(sc)).kind # "array" THEN None
             ELSE IF Len(depth) = 0 THEN None
             ELSE Some([min_depth   |-> 100 * SetMin(SliceValues(depth, 0, Len(depth))),
                        max_depth   |-> 100 * SetMax(SliceValues(depth, 0, Len(depth))),
                        screen_dist |-> Percentile35(depth, MiddleFrameIdx(Len(depth)),
                                                     MiddleFrameIdx(Len(depth)) + 1)])

DefaultStats ==
    [min_depth |-> DefaultMinDepth, max_depth |-> DefaultMaxDepth,
     screen_dist |-> DefaultScreenDist]

\* lines 95 - 117: one pass of the loop for scene i
SceneStatsOrDefault(dirs, i) ==
    IF i > Len(dirs) \/ ~dirs[i].dir THEN DefaultStats
    ELSE IF GetSceneDepthStats(dirs[i]) = None THEN DefaultStats
    ELSE The(GetSceneDepthStats(dirs[i]))

\* lines 89 - 93
SceneCountOf(md) ==
    IF md.scene_count # None /\ The(md.scene_count) # 0
    THEN The(md.scene_count)
    ELSE IF Truthy(md.scene_timestamps) THEN Len(The(md.scene_timestamps)) ELSE 0

\* update_scene_depth_metadata.py is not running
UsmIdle ==
    /\ usm_pc = "idle"
    /\ usm_files = NoUsmFiles
    /\ usm_metadata = NoUsmMetadata
    /\ usm_scenes = <<>>
    /\ scene_count = 0
    /\ usm_i = 0
    /\ scene_min_depths = <<>>
    /\ scene_max_depths = <<>>
    /\ scene_screen_dists = <<>>
    /\ usm_written = None
    /\ usm_exit = None

\* the script is started on an output directory
InitUsmVars ==
    /\ usm_pc = "start"
    /\ usm_files \in UsmFileSets
    /\ usm_metadata \in UsmMetadataSet
    /\ usm_scenes \in UsmSceneLists
    /\ scene_count = 0
    /\ usm_i = 0
    /\ scene_min_depths = <<>>
    /\ scene_max_depths = <<>>
    /\ scene_screen_dists = <<>>
    /\ usm_written = None
    /\ usm_exit = None

\* main (132 - 143) and update_metadata_with_depth_stats up to the loop (67 - 93)
UsmStart ==
    /\ usm_pc = "start"
    /\ IF ~usm_files.output_dir \/ ~usm_files.metadata \/ ~usm_files.scenes
       THEN /\ usm_exit' = Some(1)
            /\ usm_pc' = "done"
            /\ UNCHANGED <<scene_count, usm_i>>
       ELSE /\ scene_count' = SceneCountOf(usm_metadata)
            /\ usm_i' = 1
            /\ usm_pc' = "scenes"
            /\ UNCHANGED usm_exit
    /\ UNCHANGED <<usm_files, usm_metadata, usm_scenes, scene_min_depths,
                   scene_max_depths, scene_screen_dists, usm_written>>
    /\ UNCHANGED notUsm

\* lines 95 - 117
UsmScene ==
    /\ usm_pc = "scenes"
    /\ usm_i <= scene_count
    /\ scene_min_depths' = Append(scene_min_depths, SceneStatsOrDefault(usm_scenes, usm_i).min_depth)
    /\ scene_max_depths' = Append(scene_max_depths, SceneStatsOrDefault(usm_scenes, usm_i).max_depth)
    /\ scene_screen_dists' = Append(scene_screen_dists,
                                    SceneStatsOrDefault(usm_scenes, usm_i).screen_dist)
    /\ usm_i' = usm_i + 1
    /\ UNCHANGED <<usm_pc, usm_files, usm_metadata, usm_scenes, scene_count,
                   usm_written, usm_exit>>
    /\ UNCHANGED notUsm

\* lines 119 - 129 and sys.exit(0 if success else 1)
UsmWrite ==
    /\ usm_pc = "scenes"
    /\ usm_i > scene_count
    /\ usm_written' = Some([usm_metadata EXCEPT
                               !.scene_min_depths = Some(scene_min_depths),
                               !.scene_max_depths = Some(scene_max_depths),
                               !.scene_screen_dists = Some(scene_screen_dists)])
    /\ usm_exit' = Some(0)
    /\ usm_pc' = "done"
    /\ UNCHANGED <<usm_files, usm_metadata, usm_scenes, scene_count, usm_i,
                   scene_min_depths, scene_max_depths, scene_screen_dists>>
    /\ UNCHANGED notUsm

\* metadata.json apart from fps and scene_timestamps: scene_count, and the
\* keys update_metadata_with_postprocessing sets (None: the key is absent).
\* A file no earlier run has touched, and one a run with one scene has.
FreshMetadata ==
    [scene_count |-> Some(1), postprocessing |-> None,
     processed_scene_min_depths |-> None, processed_scene_max_depths |-> None,
     processed_scene_screen_dists |-> None]

StaleMetadata ==
    [scene_count |-> Some(1),
     postprocessing |-> Some([blur_sigma |-> 0, log_base |-> NpE, sharpen |-> 0]),
     processed_scene_min_depths |-> Some(<<SentinelMin>>),
     processed_scene_max_depths |-> Some(<<SentinelMax>>),
     processed_scene_screen_dists |-> Some(<<SentinelScreenDist>>)]

\* process_depth_npz.py: no input folder and no archive are looked at
NoFiles == [folder |-> FALSE, depth_npz |-> FALSE, metadata |-> FALSE, rgb |-> FALSE]

LoadIdle ==
    /\ files = NoFiles
    /\ args_export = FALSE
    /\ archive = None
    /\ depths = <<>>
    /\ height = 0
    /\ width = 0
    /\ blur_sigma = DefaultBlurSigma
    /\ log_base = LogBaseTen * ValDen
    /\ sharpen = DefaultSharpen
    /\ message = None
    /\ metadata_before = FreshMetadata
    /\ metadata_out = None
    /\ export_zip = None

AuxIdle == AggIdle /\ Da3Idle /\ UsmIdle /\ LoadIdle

\* ------------------------------------------------------------ operations
\* Entry of process_depth_npz: at the statistics with the array already
\* loaded and transformed, or at line 50 when an archive is to be loaded.
CallProcess(frames, tsopt, rate, tf, td) ==
    /\ pc' = IF archive = None THEN "stats" ELSE "load"
    /\ processed_frames' = frames
    /\ num_frames' = Len(frames)
    /\ scene_timestamps' = tsopt
    /\ fps' = rate
    /\ target_frames' = tf
    /\ target_duration' = td
    /\ processed_scene_stats' = NoStats
    /\ normalized' = <<>>
    /\ pre_reconcile' = <<>>
    /\ ffmpeg_in' = None
    /\ exception' = None

InitCall(frames, tsopt, rate, tf, td) ==
    /\ pc = "stats"
    /\ processed_frames = frames
    /\ num_frames = Len(frames)
    /\ scene_timestamps = tsopt
    /\ fps = rate
    /\ target_frames = tf
    /\ target_duration = td
    /\ processed_scene_stats = NoStats
    /\ normalized = <<>>
    /\ pre_reconcile = <<>>
    /\ ffmpeg_in = None
    /\ exception = None
    /\ args_fps = None
    /\ metadata = NoMetadata
    /\ reference = NoReference
    /\ AuxIdle

\* process_depth_npz called directly on any small array, target_frames and
\* target_duration left at their default None
Init ==
    \E frames \in ArraySet, tsopt \in TsOptions, rate \in FpsSet :
        InitCall(frames, tsopt, rate, None, None)

\* process_depth_npz called directly on a ramp of up to MaxRampFrames frames
InitRamp ==
    \E n \in 1..MaxRampFrames, tsopt \in {None, Some(<<0>>), Some(<<0, TsDen>>)} :
        \E tf \in TargetOptions(n) :
            InitCall(Ramp(n), tsopt, 1, tf, None)

\* main() after the input files were found (lines 367 - 398)
InitMain ==
    /\ pc = "main"
    /\ processed_frames \in {Ramp(n) : n \in 1..MaxMainFrames}
    /\ num_frames = Len(processed_frames)
    /\ args_fps \in {None} \cup {Some(r) : r \in FpsSet}
    /\ metadata \in [fps : {None} \cup {Some(r) : r \in FpsSet},
                     scene_timestamps : TsOptions,
                     readable : BOOLEAN]
    /\ reference \in [frames : 1..(MaxMainFrames + MaxPad),
                      rate : FpsSet,
                      probe : ProbeOutcomes]
    /\ scene_timestamps = None
    /\ fps = 0
    /\ target_frames = None
    /\ target_duration = None
    /\ processed_scene_stats = NoStats
    /\ normalized = <<>>
    /\ pre_reconcile = <<>>
    /\ ffmpeg_in = None
    /\ exception = None
    /\ AuxIdle

\* main(), lines 400 - 483: fps, scene_timestamps, target_frames and
\* target_duration are decided, then process_depth_npz is called.
MainDetermine ==
    /\ pc = "main"
    /\ LET fps1 == IF args_fps = None /\ metadata.readable THEN metadata.fps ELSE args_fps
           ts1  == IF metadata.readable THEN metadata.scene_timestamps ELSE None
           probed == fps1 = None
           ok   == probed /\ reference.probe = "ok"
           fps2 == IF ~probed THEN The(fps1)
                   ELSE IF reference.probe \in {"ok", "fail_duration", "fail_frames"}
                        THEN reference.rate
                        ELSE DefaultFps
           tf   == IF ok THEN Some(reference.frames) ELSE None
           td   == IF ok THEN Some(Duration(reference.frames, reference.rate)) ELSE None
       IN  CallProcess(processed_frames, ts1, fps2, tf, td)
    /\ UNCHANGED <<args_fps, metadata, reference, auxVars>>

\* faulty variant: the standard-error text is left out of the message
EncodeFailureNoStderr == Report("ffmpeg encoding failed", {}, FALSE)

\* line 246: RuntimeError(f"ffmpeg encoding failed: {result.stderr.decode()}")
EncodeFailure == Report("ffmpeg encoding failed", {}, TRUE)

\* raise <name>: the call ends with an exception, nothing else changes
Raise(name) ==
    /\ pc' = "raised"
    /\ exception' = Some(name)

\* lines 107 - 140
ComputeStats ==
    /\ pc = "stats"
    /\ IF StatsRaises(processed_frames, scene_timestamps, fps, num_frames)
       THEN /\ Raise("ValueError")
            /\ UNCHANGED processed_scene_stats
       ELSE /\ processed_scene_stats' =
                   StatsOf(processed_frames, scene_timestamps, fps, num_frames)
            /\ pc' = "normalize"
            /\ UNCHANGED exception
    /\ UNCHANGED <<processed_frames, num_frames, scene_timestamps, fps, target_frames,
                   target_duration, normalized, pre_reconcile, ffmpeg_in, args_fps,
                   metadata, reference, auxVars>>

\* lines 142 - 182
Normalize ==
    /\ pc = "normalize"
    /\ IF NormalizeRaises(processed_frames, scene_timestamps, fps, num_frames)
       THEN /\ Raise("ValueError")
            /\ UNCHANGED normalized
       ELSE /\ normalized' =
                   NormalizedOf(processed_frames, scene_timestamps, fps, num_frames)
            /\ pc' = "reconcile"
            /\ UNCHANGED exception
    /\ UNCHANGED <<processed_frames, num_frames, scene_timestamps, fps, target_frames,
                   target_duration, processed_scene_stats, pre_reconcile, ffmpeg_in,
                   args_fps, metadata, reference, auxVars>>

\* faulty variant: `if target_frames != num_frames:`, the None test left out
MustReconcileNoNoneCheck(tf, n) == tf # Some(n)

\* `if target_frames is not None and target_frames != num_frames:` (line 185)
MustReconcile(tf, n) == tf # None /\ The(tf) # n

\* lines 184 - 197.  Inside the branch `target_frames > num_frames` is
\* evaluated, which raises TypeError for None.
Reconcile ==
    /\ pc = "reconcile"
    /\ pre_reconcile' = normalized
    /\ IF MustReconcile(target_frames, num_frames)
       THEN IF target_frames = None
            THEN /\ Raise("TypeError")
                 /\ UNCHANGED <<normalized, num_frames>>
            ELSE /\ normalized' = ReconciledOf(normalized, num_frames, The(target_frames))
                 /\ num_frames' = The(target_frames)
                 /\ pc' = "encode"
                 /\ UNCHANGED exception
       ELSE /\ pc' = "encode"
            /\ UNCHANGED <<normalized, num_frames, exception>>
    /\ UNCHANGED <<processed_frames, scene_timestamps, fps, target_frames,
                   target_duration, processed_scene_stats, ffmpeg_in, args_fps,
                   metadata, reference, auxVars>>

\* lines 199 - 251: the frames are piped to ffmpeg at rate fps, with -t when a
\* target duration is given; a non-zero exit code raises RuntimeError,
\* otherwise the statistics are returned.
Encode ==
    /\ pc = "encode"
    /\ ffmpeg_in' = Some([frames |-> Len(normalized), rate |-> fps, t |-> target_duration])
    /\ \E returncode \in {0, 1} :
           IF returncode # 0
           THEN /\ Raise("RuntimeError")
                /\ message' = Some(EncodeFailure)
           ELSE pc' = "returned" /\ UNCHANGED <<exception, message>>
    /\ UNCHANGED <<processed_frames, num_frames, scene_timestamps, fps, target_frames,
                   target_duration, processed_scene_stats, normalized, pre_reconcile,
                   args_fps, metadata, reference, otherScripts, loadVars>>

Next == ComputeStats \/ Normalize \/ Reconcile \/ Encode

NextMain == MainDetermine \/ Next

Spec == Init /\ [][Next]_vars

SpecRamp == InitRamp /\ [][Next]_vars

SpecMain == InitMain /\ [][NextMain]_vars

\* lines 79 - 105: every frame is blurred, log-compressed and sharpened
Transform ==
    /\ pc = "transform"
    /\ processed_frames' = TransformedOf(depths, blur_sigma, log_base, sharpen)
    /\ pc' = "stats"
    /\ UNCHANGED <<num_frames, scene_timestamps, fps, target_frames, target_duration,
                   processed_scene_stats, normalized, pre_reconcile, ffmpeg_in,
                   exception, args_fps, metadata, reference, auxVars>>

\* process_depth_npz at line 79, the array loaded and its frame axis first
InitTransform ==
    /\ pc = "transform"
    /\ depths \in RawArrays
    /\ blur_sigma \in BlurSigmas
    /\ log_base \in LogBases
    /\ sharpen \in Sharpens
    /\ num_frames = Len(depths)
    /\ height = 1
    /\ width = Cardinality(Pixels)
    /\ processed_frames = <<>>
    /\ scene_timestamps = None
    /\ fps = 1
    /\ target_frames = None
    /\ target_duration = None
    /\ processed_scene_stats = NoStats
    /\ normalized = <<>>
    /\ pre_reconcile = <<>>
    /\ ffmpeg_in = None
    /\ exception = None
    /\ args_fps = None
    /\ metadata = NoMetadata
    /\ reference = NoReference
    /\ files = NoFiles
    /\ args_export = FALSE
    /\ archive = None
    /\ message = None
    /\ metadata_before = FreshMetadata
    /\ metadata_out = None
    /\ export_zip = None
    /\ AggIdle
    /\ Da3Idle
    /\ UsmIdle

SpecTransform == InitTransform /\ [][Transform]_vars

\* faulty variant: metadata.json is not looked for
MissingFileNoMetadata(f) ==
    IF ~f.folder THEN "Input folder not found"
    ELSE IF ~f.depth_npz THEN "depth.npz not found"
    ELSE IF ~f.rgb THEN "RGB video not found"
    ELSE ""

\* main(), lines 367 - 392: the input folder and its files are looked for
MissingFile(f) ==
    IF ~f.folder THEN "Input folder not found"
    ELSE IF ~f.depth_npz THEN "depth.npz not found"
    ELSE IF ~f.metadata THEN "metadata.json not found"
    ELSE IF ~f.rgb THEN "RGB video not found"
    ELSE ""

MainFiles ==
    /\ pc = "files"
    /\ IF MissingFile(files) # ""
       THEN /\ Raise("FileNotFoundError")
            /\ message' = Some(Report(MissingFile(files), {}, FALSE))
       ELSE /\ pc' = "main"
            /\ UNCHANGED <<exception, message>>
    /\ UNCHANGED <<processed_frames, num_frames, scene_timestamps, fps, target_frames,
                   target_duration, processed_scene_stats, normalized, pre_reconcile,
                   ffmpeg_in, args_fps, metadata, reference, otherScripts, loadVars>>

\* faulty variant: the message does not list the keys
MissingKeyReportNoKeys(keys) == Report("No 'depth' key found", {}, FALSE)

\* line 55: "No 'depth' key found in ... Available keys: [...]"
MissingKeyReport(keys) == Report("No 'depth' key found", keys, FALSE)

\* lines 50 - 59: the archive is loaded and its 'depth' entry looked up
LoadArchive ==
    /\ pc = "load"
    /\ IF "depth" \notin The(archive).keys
       THEN /\ Raise("ValueError")
            /\ message' = Some(MissingKeyReport(The(archive).keys))
       ELSE /\ pc' = "shape"
            /\ UNCHANGED <<exception, message>>
    /\ UNCHANGED <<processed_frames, num_frames, scene_timestamps, fps, target_frames,
                   target_duration, processed_scene_stats, normalized, pre_reconcile,
                   ffmpeg_in, args_fps, metadata, reference, otherScripts, loadVars>>

\* the content of the loaded array along its frame axis: frame f holds f - 1
LoadedFrames(n) == [f \in 1..n |-> [p \in Pixels |-> f - 1]]

\* lines 61 - 77
HandleShape ==
    /\ pc = "shape"
    /\ LET shape == The(archive).shape
       IN  IF ShapeRejected(shape)
           THEN /\ Raise("ValueError")
                /\ message' = Some(Report("Unsupported depth array shape", {}, FALSE))
                /\ UNCHANGED <<depths, num_frames, height, width>>
           ELSE /\ depths' = LoadedFrames(NumDepthFrames(shape))
                /\ num_frames' = NumDepthFrames(shape)
                /\ height' = FrameHeight(shape)
                /\ width' = FrameWidth(shape)
                /\ pc' = "transform"
                /\ UNCHANGED <<exception, message>>
    /\ UNCHANGED <<processed_frames, scene_timestamps, fps, target_frames,
                   target_duration, processed_scene_stats, normalized, pre_reconcile,
                   ffmpeg_in, args_fps, metadata, reference, otherScripts, files,
                   args_export, archive, blur_sigma, log_base, sharpen,
                   metadata_before, metadata_out, export_zip>>

\* metadata = json.load(f): the whole file, the keys main read included
MetadataContent(md, rest) ==
    [fps |-> md.fps,
     scene_timestamps |-> md.scene_timestamps,
     scene_count |-> rest.scene_count,
     postprocessing |-> rest.postprocessing,
     processed_scene_min_depths |-> rest.processed_scene_min_depths,
     processed_scene_max_depths |-> rest.processed_scene_max_depths,
     processed_scene_screen_dists |-> rest.processed_scene_screen_dists]

\* faulty variant: the list is written whatever its length
KeyWrittenAlways(list) == TRUE

\* `if processed_scene_stats.get(key):` - an empty list is not written
KeyWritten(list) == Len(list) # 0

\* lines 268 - 283: the keys update_metadata_with_postprocessing sets
PostprocessingUpdate(old, sigma, base, s, stats) ==
    [old EXCEPT
        !.postprocessing = Some([blur_sigma |-> sigma, log_base |-> base, sharpen |-> s]),
        !.processed_scene_min_depths =
            IF KeyWritten(stats.min_depths) THEN Some(stats.min_depths) ELSE @,
        !.processed_scene_max_depths =
            IF KeyWritten(stats.max_depths) THEN Some(stats.max_depths) ELSE @,
        !.processed_scene_screen_dists =
            IF KeyWritten(stats.screen_dists) THEN Some(stats.screen_dists) ELSE @]

\* faulty variant: the update also runs when the call ended with an exception
CallReturnedOrRaised(p) == p \in {"returned", "raised"}

\* main() reaches line 485 only when process_depth_npz returned
CallReturned(p) == p = "returned"

\* main(), lines 485 - 492, update_metadata_with_postprocessing (254 - 288):
\* metadata.json is parsed again, without the try of line 407
UpdateMetadata ==
    /\ CallReturned(pc)
    /\ IF ~metadata.readable
       THEN /\ Raise("JSONDecodeError")
            /\ message' = Some(Report("metadata.json is not valid JSON", {}, FALSE))
            /\ UNCHANGED metadata_out
       ELSE /\ metadata_out' = Some(PostprocessingUpdate(
                                        MetadataContent(metadata, metadata_before),
                                        blur_sigma, log_base, sharpen,
                                        processed_scene_stats))
            /\ pc' = "updated"
            /\ UNCHANGED <<exception, message>>
    /\ UNCHANGED <<processed_frames, num_frames, scene_timestamps, fps, target_frames,
                   target_duration, processed_scene_stats, normalized, pre_reconcile,
                   ffmpeg_in, args_fps, metadata, reference, otherScripts, files,
                   args_export, archive, depths, height, width, blur_sigma, log_base,
                   sharpen, metadata_before, export_zip>>

\* faulty variant: the reference video is left out
ExportMembersNoRgb ==
    {[arcname |-> "metadata.json", file |-> "metadata_file"],
     [arcname |-> "depth.mp4", file |-> "output_video"]}

\* create_export_zip (lines 297 - 305): the archive names and the files of
\* main() stored under them
ExportMembers ==
    {[arcname |-> "metadata.json", file |-> "metadata_file"],
     [arcname |-> "rgb.mp4", file |-> "rgb_video"],
     [arcname |-> "depth.mp4", file |-> "output_video"]}

\* main(), lines 494 - 501, create_export_zip (291 - 311)
CreateExport ==
    /\ pc = "updated"
    /\ args_export
    /\ export_zip' = Some(ExportMembers)
    /\ pc' = "done"
    /\ UNCHANGED <<processed_frames, num_frames, scene_timestamps, fps, target_frames,
                   target_duration, processed_scene_stats, normalized, pre_reconcile,
                   ffmpeg_in, exception, args_fps, metadata, reference, otherScripts,
                   files, args_export, archive, depths, height, width, blur_sigma,
                   log_base, sharpen, metadata_before, metadata_out, message>>

\* main() of process_depth_npz.py is started on an input folder holding an
\* archive; metadata.json gives the frame rate or cannot be parsed, and the
\* first or the last ffprobe call on the reference video may fail
InitLoad ==
    /\ pc = "files"
    /\ files \in FileSets
    /\ args_export \in BOOLEAN
    /\ archive \in {Some(a) : a \in Archives}
    /\ metadata \in {[fps |-> Some(1), scene_timestamps |-> None, readable |-> TRUE],
                     [fps |-> None, scene_timestamps |-> None, readable |-> FALSE]}
    /\ reference \in [frames : {2}, rate : {1}, probe : {"ok", "fail_rate", "fail_frames"}]
    /\ args_fps = None
    /\ processed_frames = <<>>
    /\ num_frames = 0
    /\ scene_timestamps = None
    /\ fps = 0
    /\ target_frames = None
    /\ target_duration = None
    /\ processed_scene_stats = NoStats
    /\ normalized = <<>>
    /\ pre_reconcile = <<>>
    /\ ffmpeg_in = None
    /\ exception = None
    /\ depths = <<>>
    /\ height = 0
    /\ width = 0
    /\ blur_sigma = DefaultBlurSigma
    /\ log_base = LogBaseTen * ValDen
    /\ sharpen = DefaultSharpen
    /\ message = None
    /\ metadata_before = StaleMetadata
    /\ metadata_out = None
    /\ export_zip = None
    /\ AggIdle
    /\ Da3Idle
    /\ UsmIdle

NextLoad ==
    \/ MainFiles
    \/ MainDetermine
    \/ LoadArchive
    \/ HandleShape
    \/ Transform
    \/ ComputeStats
    \/ Normalize
    \/ Reconcile
    \/ Encode
    \/ UpdateMetadata
    \/ CreateExport

SpecLoad == InitLoad /\ [][NextLoad]_vars

\* the transformed arrays main() is followed on: ramps, and two arrays whose
\* frames are not flat
UpdateArrays ==
    {Ramp(n) : n \in 1..MaxFrames}
    \cup {<<[p \in Pixels |-> p]>>,
          <<[p \in Pixels |-> p - 1], [p \in Pixels |-> 3 - p]>>}

\* main() has found its files and calls process_depth_npz on a transformed
\* array; metadata.json may or may not carry the keys of an earlier run, and
\* gave the scene timestamps unless it cannot be parsed
InitUpdate ==
    /\ pc = "stats"
    /\ processed_frames \in UpdateArrays
    /\ num_frames = Len(processed_frames)
    /\ scene_timestamps \in TsOptions
    /\ fps \in FpsSet
    /\ metadata \in {[fps |-> Some(fps), scene_timestamps |-> scene_timestamps,
                      readable |-> TRUE]}
                     \cup {[fps |-> None, scene_timestamps |-> None, readable |-> FALSE] :
                              x \in {scene_timestamps} \cap {None}}
    /\ metadata_before \in {FreshMetadata, StaleMetadata}
    /\ args_export \in BOOLEAN
    /\ blur_sigma \in BlurSigmas
    /\ target_frames = None
    /\ target_duration = None
    /\ processed_scene_stats = NoStats
    /\ normalized = <<>>
    /\ pre_reconcile = <<>>
    /\ ffmpeg_in = None
    /\ exception = None
    /\ args_fps = None
    /\ reference = [frames |-> num_frames, rate |-> fps, probe |-> "ok"]
    /\ files = [folder |-> TRUE, depth_npz |-> TRUE, metadata |-> TRUE, rgb |-> TRUE]
    /\ archive = None
    /\ depths = <<>>
    /\ height = 1
    /\ width = Cardinality(Pixels)
    /\ log_base = LogBaseTen * ValDen
    /\ sharpen = DefaultSharpen
    /\ message = None
    /\ metadata_out = None
    /\ export_zip = None
    /\ AggIdle
    /\ Da3Idle
    /\ UsmIdle

NextUpdate ==
    \/ ComputeStats
    \/ Normalize
    \/ Reconcile
    \/ Encode
    \/ UpdateMetadata
    \/ CreateExport

SpecUpdate == InitUpdate /\ [][NextUpdate]_vars

\* the depth post-processing script is not running
ProcIdle ==
    /\ pc = "idle"
    /\ processed_frames = <<>>
    /\ num_frames = 0
    /\ scene_timestamps = None
    /\ fps = 0
    /\ target_frames = None
    /\ target_duration = None
    /\ processed_scene_stats = NoStats
    /\ normalized = <<>>
    /\ pre_reconcile = <<>>
    /\ ffmpeg_in = None
    /\ exception = None
    /\ args_fps = None
    /\ metadata = NoMetadata
    /\ reference = NoReference

InitAggregate == ProcIdle /\ LoadIdle /\ Da3Idle /\ UsmIdle /\ InitAggregateVars

NextAggregate == AggStart \/ AggScene \/ AggFinish

InitDa3 == ProcIdle /\ LoadIdle /\ AggIdle /\ UsmIdle /\ InitDa3Vars

NextDa3 == Da3Pts \/ Da3Extract \/ Da3Run \/ Da3Verify \/ Da3Save

SpecDa3 == InitDa3 /\ [][NextDa3]_vars

\* one of the three scripts is started
InitScripts == InitLoad \/ InitAggregate \/ InitDa3

NextScripts == NextLoad \/ NextAggregate \/ NextDa3

SpecScripts == InitScripts /\ [][NextScripts]_vars

SpecAggregate == InitAggregate /\ [][NextAggregate]_vars

InitUsm == ProcIdle /\ LoadIdle /\ AggIdle /\ Da3Idle /\ InitUsmVars

NextUsm == UsmStart \/ UsmScene \/ UsmWrite

SpecUsm == InitUsm /\ [][NextUsm]_vars

\* ======================================================== properties
\* Reference definitions, stated from the specification text and independent of the
\* operators above.
RefMin(S) == CHOOSE x \in S : \A y \in S : x <= y

RefMax(S) == CHOOSE x \in S : \A y \in S : x >= y

\* the values of frames s .. e-1 (0-based)
RefVals(frames, s, e) == {frames[f][p] : f \in (s + 1)..e, p \in Pixels}

\* floor(ts * fps) clamped to [0, n]
RefIndex(tsnum, rate, n) ==
    LET x == (tsnum * rate) \div TsDen
    IN  IF x < 0 THEN 0 ELSE IF x > n THEN n ELSE x

RefStart(ts, rate, n, i) == RefIndex(ts[i], rate, n)

RefEnd(ts, rate, n, i) == IF i < Len(ts) THEN RefIndex(ts[i + 1], rate, n) ELSE n

\* value v of a range [lo, hi] mapped affinely to 0..255 and truncated;
\* a range of width 0 maps to 0
RefScale(v, lo, hi) == IF hi > lo THEN ((v - lo) * 255) \div (hi - lo) ELSE 0

NumScenes == Len(TsList(scene_timestamps))

TotalFrames == Len(processed_frames)

\* C1: after the normalization step every pixel of the 8-bit array lies in
\* 0..255, whatever the scene-timestamp list is.
C1_PixelsInRange ==
    \A f \in DOMAIN normalized : \A p \in Pixels :
        normalized[f][p] >= 0 /\ normalized[f][p] <= 255

C1_Witness ==
    /\ pc = "reconcile"
    /\ NumScenes >= 2
    /\ \E f \in DOMAIN normalized : \E p, q \in Pixels :
           normalized[f][p] = 255 /\ normalized[f][q] = 127

C3_GlobalWhenFewScenes ==
    (pc = "reconcile" /\ NumScenes < 2) =>
        LET lo == RefMin(RefVals(processed_frames, 0, TotalFrames))
            hi == RefMax(RefVals(processed_frames, 0, TotalFrames))
        IN  normalized =
                [f \in 1..TotalFrames |->
                    [p \in Pixels |-> RefScale(processed_frames[f][p], lo, hi)]]

\* a single timestamp that starts after frame 0: the frame before it is
\* still normalized
C3_Witness ==
    /\ pc = "reconcile"
    /\ NumScenes = 1
    /\ RefStart(The(scene_timestamps), fps, TotalFrames, 1) >= 1
    /\ \E p \in Pixels : normalized[1][p] = 255

\* C4: the scene boundaries are floor(ts * fps) clamped to [0, total];
\* scene i spans [index_i, index_(i+1)), the last scene ends at total; the
\* statistics of scene i are those of that span.  [0.0, 2.0] at fps 10 with
\* 25 frames gives [0, 20) and [20, 25).
C4_SceneBoundaries ==
    /\ (pc \in {"normalize", "reconcile"} /\ NumScenes >= 1) =>
           \A i \in 1..NumScenes :
               LET ts == The(scene_timestamps)
                   s  == RefStart(ts, fps, TotalFrames, i)
                   e  == RefEnd(ts, fps, TotalFrames, i)
               IN  /\ SceneStart(ts, fps, TotalFrames, i) = s
                   /\ SceneEnd(ts, fps, TotalFrames, i) = e
                   /\ s < e =>
                          /\ processed_scene_stats.min_depths[i] =
                                 100 * RefMin(RefVals(processed_frames, s, e))
                          /\ processed_scene_stats.max_depths[i] =
                                 100 * RefMax(RefVals(processed_frames, s, e))
    /\ SceneStart(<<0, 2 * TsDen>>, 10, 25, 1) = 0
    /\ SceneEnd(<<0, 2 * TsDen>>, 10, 25, 1) = 20
    /\ SceneStart(<<0, 2 * TsDen>>, 10, 25, 2) = 20
    /\ SceneEnd(<<0, 2 * TsDen>>, 10, 25, 2) = 25

\* a negative fractional product (int() and floor differ before clamping)
\* and a positive fractional one, with two non-empty scenes behind them
C4_Witness ==
    /\ pc = "normalize"
    /\ NumScenes = 3
    /\ fps = 1
    /\ The(scene_timestamps)[1] < 0
    /\ (The(scene_timestamps)[3] * fps) % TsDen # 0
    /\ RefStart(The(scene_timestamps), fps, TotalFrames, 3) = 1
    /\ TotalFrames = 2
    /\ processed_scene_stats.min_depths[3] # processed_scene_stats.min_depths[2]

\* C10: a scene whose clamped range is empty raises nothing, gets the
\* sentinel statistics (0.0, 1.0, 0.35) at its own position, and writes no
\* frame; every frame is written by the non-empty scene that contains it.
C10_EmptyScene ==
    /\ exception # Some("ValueError")
    /\ (pc \in {"normalize", "reconcile"} /\ NumScenes >= 1) =>
           /\ Len(processed_scene_stats.min_depths) = NumScenes
           /\ Len(processed_scene_stats.max_depths) = NumScenes
           /\ Len(processed_scene_stats.screen_dists) = NumScenes
           /\ \A i \in 1..NumScenes :
                  LET ts == The(scene_timestamps)
                      s  == RefStart(ts, fps, TotalFrames, i)
                      e  == RefEnd(ts, fps, TotalFrames, i)
                  IN  /\ s >= e =>
                             /\ processed_scene_stats.min_depths[i] = 0
                             /\ processed_scene_stats.max_depths[i] = 100
                             /\ processed_scene_stats.screen_dists[i] = 35
                      /\ (s < e /\ pc = "reconcile" /\ NumScenes >= 2) =>
                             \A f \in (s + 1)..e : \A p \in Pixels :
                                 normalized[f][p] =
                                     RefScale(processed_frames[f][p],
                                              RefMin(RefVals(processed_frames, s, e)),
                                              RefMax(RefVals(processed_frames, s, e)))

\* three scenes, the middle one empty, its neighbours normalized
C10_Witness ==
    /\ pc = "reconcile"
    /\ NumScenes = 3
    /\ TotalFrames = 2
    /\ RefStart(The(scene_timestamps), fps, TotalFrames, 1) = 0
    /\ RefStart(The(scene_timestamps), fps, TotalFrames, 2) = 1
    /\ RefEnd(The(scene_timestamps), fps, TotalFrames, 2) = 1
    /\ processed_scene_stats.screen_dists[2] = 35
    /\ processed_scene_stats.max_depths[2] = 100
    /\ \E p \in Pixels : normalized[1][p] = 255
    /\ \E p \in Pixels : normalized[2][p] = 255

\* target length T and original length N of the reconciler
TargetT == The(target_frames)

\* C5: given a target length T >= 0, the reconciliation step leaves exactly
\* T frames (and num_frames = T), for every array length N >= 1.
C5_ExactlyTargetFrames ==
    (pc = "encode" /\ target_frames # None) =>
        /\ Len(normalized) = TargetT
        /\ num_frames = TargetT

C5_Witness ==
    /\ pc = "encode"
    /\ target_frames = Some(5)
    /\ Len(pre_reconcile) = 10
    /\ Len(normalized) = 5

\* C6: for T > N the first N frames are the original frames in order and
\* each of the last T - N frames is original frame N - 1.
C6_HoldLastFrame ==
    (pc = "encode" /\ target_frames # None /\ TargetT > TotalFrames) =>
        /\ Len(normalized) = TargetT
        /\ \A k \in 1..TotalFrames : normalized[k] = pre_reconcile[k]
        /\ \A k \in (TotalFrames + 1)..TargetT : normalized[k] = pre_reconcile[TotalFrames]

\* 10 frames to target 15: frames 10..14 equal frame 9, which differs from
\* frame 8
C6_Witness ==
    /\ pc = "encode"
    /\ target_frames = Some(15)
    /\ Len(pre_reconcile) = 10
    /\ \A k \in 11..15 : normalized[k] = pre_reconcile[10]
    /\ pre_reconcile[10] # pre_reconcile[9]

\* floor(k * (N - 1) / (T - 1)), frame 0 for T = 1
ExactIndex(N, T, k) == IF T = 1 THEN 0 ELSE (k * (N - 1)) \div (T - 1)

\* C7 as claimed: for T < N output frame k is input frame
\* floor(k * (N - 1) / (T - 1)) (frame 0 for T = 1).
C7_ExactFloorIndex ==
    (pc = "encode" /\ target_frames # None /\ TargetT < TotalFrames) =>
        \A k \in 0..(TargetT - 1) :
            normalized[k + 1] = pre_reconcile[ExactIndex(TotalFrames, TargetT, k) + 1]

\* C7 as amended: for T < N output frame k is input frame
\* int(linspace(0, N - 1, T)[k]) as computed in double precision: it is
\* floor(k * (N - 1) / (T - 1)) whenever N <= 30, or k * (N - 1) / (T - 1)
\* is not an integer, or k is 0 or T - 1; otherwise it is that index or the
\* one before it.  For N = 10, T = 5 the frames are 0, 2, 4, 6, 9.
C7_LinspaceIndex ==
    (pc = "encode" /\ target_frames # None /\ TargetT < TotalFrames) =>
        /\ Len(normalized) = TargetT
        /\ \A k \in 0..(TargetT - 1) :
               LET E == ExactIndex(TotalFrames, TargetT, k)
               IN  IF \/ TotalFrames <= 30
                      \/ TargetT = 1
                      \/ k = 0
                      \/ k = TargetT - 1
                      \/ (k * (TotalFrames - 1)) % (TargetT - 1) # 0
                   THEN normalized[k + 1] = pre_reconcile[E + 1]
                   ELSE \/ normalized[k + 1] = pre_reconcile[E + 1]
                        \/ normalized[k + 1] = pre_reconcile[E]
        /\ (TotalFrames = 10 /\ TargetT = 5) =>
               normalized = <<pre_reconcile[1], pre_reconcile[3], pre_reconcile[5],
                              pre_reconcile[7], pre_reconcile[10]>>

\* 31 frames to target 23: output frame 11 is input frame 14, the frame
\* before floor(11 * 30 / 22) = 15; all input frames differ
C7_Witness ==
    /\ pc = "encode"
    /\ target_frames = Some(23)
    /\ Len(pre_reconcile) = 31
    /\ normalized[12] = pre_reconcile[15]
    /\ normalized[12] # pre_reconcile[16]

\* C8: with no target length, or a target equal to the array length, the
\* reconciliation step raises nothing and leaves the frame array and the
\* frame count as they were.
C8_NoOpWhenEqualOrAbsent ==
    (/\ pc \in {"encode", "returned", "raised"}
     /\ exception # Some("ValueError")
     /\ target_frames \in {None, Some(TotalFrames)}) =>
        /\ exception # Some("TypeError")
        /\ normalized = pre_reconcile
        /\ num_frames = TotalFrames

C8_Witness ==
    /\ pc = "encode"
    /\ target_frames = Some(TotalFrames)
    /\ TotalFrames = 10
    /\ normalized = pre_reconcile
    /\ Len(normalized) = 10

\* C9 as claimed: whenever main runs with a reference video whose frame
\* count differs from the depth array's, the encoder is handed as many
\* frames as the reference has and the reference duration, wherever the
\* frame rate came from.
C9_ReferenceParity ==
    (/\ pc = "returned"
     /\ reference.probe = "ok"
     /\ reference.frames # TotalFrames) =>
        /\ The(ffmpeg_in).frames = reference.frames
        /\ The(ffmpeg_in).t = Some(Duration(reference.frames, reference.rate))

\* -------------------------------------------------------- create_depth_npz
\* the scenes that have no depth npz
MissingScenes == {i \in 1..Len(scenes) : scenes[i].kind \in {"video", "video_fail", "none"}}

AggRan == agg_pc = "exit" /\ agg_files.metadata /\ agg_files.scenes_dir

\* C11 as claimed: when some scenes have no depth npz and at least one scene
\* has depth, create_depth_npz does not fail; every missing scene is in the
\* list as a placeholder, the list is in scene order, and the concatenated
\* depth array has exactly total_frames frames.
C11_MissingScenesTolerated ==
    (/\ AggRan
     /\ MissingScenes # {}
     /\ \E i \in 1..Len(scenes) : scenes[i].kind = "npz")
    => /\ exit_status = Some(0)
       /\ agg_error = None
       /\ \A i \in MissingScenes :
              \E j \in 1..Len(all_depths) : all_depths[j].scene = i /\ all_depths[j].flat
       /\ \A j, k \in 1..Len(all_depths) :
              j < k => all_depths[j].scene < all_depths[k].scene
       /\ output_npz # None
       /\ The(The(output_npz).depth).frames = total_frames

\* the placeholders appended so far, by position in all_depths
Placeholders == {j \in 1..Len(all_depths) : all_depths[j].flat}

\* positions of really loaded arrays before position j
LoadedBefore(j) == {k \in 1..(j - 1) : ~all_depths[k].flat}

Transformed == pc = "stats" /\ depths # <<>>

\* C13: with sharpen = 0 every transformed pixel is log_b(blur(frame) + 1);
\* the unblurred frame does not enter the result.
C13_SharpenZeroIsLogBlur ==
    (Transformed /\ sharpen = 0) =>
        \A f \in 1..Len(depths) : \A p \in Pixels :
            processed_frames[f][p] =
                SharpenDen * LogB(log_base, GaussianFilter(depths[f], blur_sigma)[p])

\* the blur changes a pixel's logarithm and sharpen is 0
C13_Witness ==
    /\ Transformed
    /\ sharpen = 0
    /\ \E f \in 1..Len(depths) : \E p \in Pixels :
           /\ LogB(log_base, GaussianFilter(depths[f], blur_sigma)[p])
                  # LogB(log_base, ValDen * depths[f][p])
           /\ processed_frames[f][p] # 0

DepthShape == The(archive).shape

ArchiveRead ==
    /\ archive # None
    /\ MissingFile(files) = ""
    /\ pc \notin {"files", "main", "load"}

NothingProduced ==
    /\ processed_frames = <<>>
    /\ ffmpeg_in = None
    /\ metadata_out = None
    /\ export_zip = None

\* C15: a 'depth' entry with neither 2 nor 3 axes ends process_depth_npz with
\* an error before a frame is transformed and before a video, a metadata
\* update or an export file is produced; a 2-D entry is taken as one frame.
C15_BadNdimIsFatal ==
    (ArchiveRead /\ "depth" \in The(archive).keys /\ pc # "shape") =>
        /\ Len(DepthShape) \notin {2, 3} =>
               /\ pc = "raised"
               /\ exception = Some("ValueError")
               /\ NothingProduced
        /\ Len(DepthShape) = 2 =>
               /\ exception # Some("ValueError")
               /\ Len(depths) = 1
               /\ height = DepthShape[1]
               /\ width = DepthShape[2]

\* a 4-D entry was refused
C15_Witness ==
    /\ ArchiveRead
    /\ "depth" \in The(archive).keys
    /\ Len(DepthShape) = 4
    /\ pc = "raised"
    /\ message = Some([text |-> "Unsupported depth array shape", keys |-> {},
                       stderr |-> FALSE])

\* C17: without a 'depth' entry process_depth_npz raises an error whose
\* message lists the keys of the archive; no video is encoded, metadata.json
\* is not modified and no export.zip is created.
C17_MissingDepthKey ==
    (ArchiveRead /\ "depth" \notin The(archive).keys) =>
        /\ pc = "raised"
        /\ exception = Some("ValueError")
        /\ message # None
        /\ The(message).keys = The(archive).keys
        /\ NothingProduced

\* an archive holding only 'conf' was refused, --export given
C17_Witness ==
    /\ ArchiveRead
    /\ The(archive).keys = {"conf"}
    /\ args_export
    /\ pc = "raised"
    /\ The(message).keys = {"conf"}

\* ------------------------------------------------ process_scene_frames_da3
\* the number of frames the verification reads off the output npz
RefDepthFrames ==
    LET shape == The(da3_npz).shape
    IN  IF Len(shape) = 2 THEN 1
        ELSE IF shape[3] < shape[1] /\ shape[3] < shape[2] THEN shape[3]
        ELSE shape[1]

Da3CountsAgree ==
    /\ rgb_pts # None
    /\ frame_files = rgb_pts
    /\ da3_npz # None
    /\ "depth" \in The(da3_npz).keys
    /\ Len(The(da3_npz).shape) \in {2, 3}
    /\ RefDepthFrames = The(rgb_pts)

\* C20: rgb_pts.npy and rgb_timebase.txt are written and the status is 0 only
\* if the extracted frame files, the PTS values and the depth frames of the
\* output npz are equal in number; a mismatch ends with status 1 and
\* neither file written.
C20_SuccessOnlyIfCountsAgree ==
    /\ (pts_file # None \/ timebase_file \/ da3_exit = Some(0)) =>
           /\ Da3CountsAgree
           /\ pts_file = rgb_pts
           /\ timebase_file
           /\ da3_exit = Some(0)
    /\ (frame_files # None /\ frame_files # rgb_pts) =>
           da3_exit = Some(1) /\ pts_file = None /\ ~timebase_file
    /\ (da3_pc \in {"save", "exit"} /\ num_depth_frames # None
        /\ num_depth_frames # rgb_pts) =>
           da3_exit = Some(1) /\ pts_file = None /\ ~timebase_file

\* a run of three frames ended successfully
C20_Witness ==
    /\ da3_pc = "exit"
    /\ da3_exit = Some(0)
    /\ pts_file = Some(3)
    /\ The(da3_npz).shape = <<3, 3, 3>>

\* ---------------------------------------------------------- frame axis
MinDim(shape) == RefMin({shape[1], shape[2], shape[3]})

\* the frame count the code's rule gives for a 3-D shape
RuleFrames(shape) ==
    IF shape[3] < shape[1] /\ shape[3] < shape[2] THEN shape[3] ELSE shape[1]

\* process_depth_npz has put a 3-D array in frame order
Shape3Handled ==
    /\ ArchiveRead
    /\ "depth" \in The(archive).keys
    /\ Len(DepthShape) = 3
    /\ pc # "shape"

\* process_scene_frames_da3 has counted the frames of a 3-D array
Shape3Counted ==
    /\ num_depth_frames # None
    /\ Len(The(da3_npz).shape) = 3

\* C16 as claimed: for a 3-D array the frame axis is the smallest of the
\* three dimensions, so as many frames are processed (or counted).
C16_SmallestAxisIsFrames ==
    /\ Shape3Handled => Len(depths) = MinDim(DepthShape)
    /\ Shape3Counted => The(num_depth_frames) = MinDim(The(da3_npz).shape)

\* C16: for a 3-D array the frame axis is the last one when it is strictly
\* smaller than both others, and the first one otherwise, whatever its size;
\* the frame count is the smallest dimension exactly when the last axis is
\* strictly the smallest or the first is not larger than the two others.
C16_FrameAxisRule ==
    /\ Shape3Handled =>
           /\ Len(depths) = RuleFrames(DepthShape)
           /\ pc = "transform" => num_frames = RuleFrames(DepthShape)
           /\ (Len(depths) = MinDim(DepthShape)) <=>
                  \/ (DepthShape[3] < DepthShape[1] /\ DepthShape[3] < DepthShape[2])
                  \/ (DepthShape[1] <= DepthShape[2] /\ DepthShape[1] <= DepthShape[3])
    /\ Shape3Counted =>
           The(num_depth_frames) = RuleFrames(The(da3_npz).shape)

\* an array whose first axis is the largest one was processed along it
C16_Witness ==
    /\ Shape3Handled
    /\ DepthShape = <<3, 1, 2>>
    /\ pc = "transform"
    /\ num_frames = 3

\* ------------------------------------------------- subprocess failures
\* main() asks ffprobe about the reference video
Probed == args_fps = None /\ ~(metadata.readable /\ metadata.fps # None)

ProbeFailed == reference.probe \in {"fail_rate", "fail_duration", "fail_frames"}

MainStarted == archive # None /\ MissingFile(files) = "" /\ pc \notin {"files", "main"}

\* a scene whose ffprobe call failed has been looked at
ProbeFailedScenes ==
    {i \in 1..Len(scenes) : i < scene_i /\ scenes[i].kind = "video_fail"}

Da3SubprocessFailed ==
    /\ da3_report # None
    /\ The(da3_report).text \in {"CalledProcessError", "Error extracting frames",
                                  "Error running da3 images command"}

\* C18 as claimed: every subprocess that exits with a non-zero code ends the
\* run with a failure that reports the captured standard-error text; the run
\* never goes on past it.
C18_EveryFailureIsFatal ==
    /\ (MainStarted /\ Probed /\ ProbeFailed) =>
           pc = "raised" /\ message # None /\ The(message).stderr
    /\ exception = Some("RuntimeError") =>
           pc = "raised" /\ message # None /\ The(message).stderr
    /\ ProbeFailedScenes # {} => agg_pc = "exit" /\ exit_status = Some(1)
    /\ Da3SubprocessFailed => da3_exit = Some(1) /\ The(da3_report).stderr

\* C18: a failing encoder raises RuntimeError with the standard-error text;
\* in process_scene_frames_da3 a failing frame extraction or da3 run exits
\* with 1 reporting the standard-error text and a failing ffprobe exits with
\* 1 through CalledProcessError, without that text.  A failing ffprobe is not
\* fatal in main() of process_depth_npz (the run goes on with the rate found
\* so far or 24 and without targets) nor in create_depth_npz (the scene is
\* skipped).
C18_FailuresByCall ==
    /\ exception = Some("RuntimeError") =>
           /\ pc = "raised"
           /\ message # None /\ The(message).stderr
           /\ metadata_out = None /\ export_zip = None
    /\ Da3SubprocessFailed =>
           /\ da3_pc = "exit" /\ da3_exit = Some(1)
           /\ pts_file = None /\ ~timebase_file
           /\ The(da3_report).stderr = (The(da3_report).text # "CalledProcessError")
    /\ (MainStarted /\ Probed /\ ProbeFailed) =>
           /\ fps = IF reference.probe = "fail_rate" THEN 24 ELSE reference.rate
           /\ target_frames = None
           /\ target_duration = None
           /\ (pc = "raised" => exception # None /\ exception # Some("CalledProcessError"))
    /\ \A i \in ProbeFailedScenes :
           \A j \in 1..Len(all_depths) : all_depths[j].scene # i

\* main() went on after a failed ffprobe call and the video was encoded
C18_Witness ==
    /\ MainStarted
    /\ Probed
    /\ reference.probe = "fail_frames"
    /\ pc = "returned"
    /\ ffmpeg_in # None

\* ------------------------------------------------------- missing files
\* C19: without depth.npz or metadata.json main() of process_depth_npz ends
\* with an error before anything is loaded, encoded or written; without
\* metadata.json or the scenes directory create_depth_npz reports an error,
\* writes no depth.npz and the script exits with status 1.
C19_MissingInputsAreFatal ==
    /\ (archive # None /\ pc # "files" /\ (~files.depth_npz \/ ~files.metadata)) =>
           /\ pc = "raised"
           /\ exception = Some("FileNotFoundError")
           /\ depths = <<>>
           /\ NothingProduced
    /\ (agg_pc \notin {"idle", "start"}
        /\ (~agg_files.metadata \/ ~agg_files.scenes_dir)) =>
           /\ agg_pc = "exit"
           /\ agg_error # None
           /\ all_depths = <<>>
           /\ output_npz = None
           /\ exit_status = Some(1)

\* create_depth_npz has stopped for want of the scenes directory, although
\* scenes with depth were listed
C19_Witness ==
    /\ agg_pc = "exit"
    /\ agg_files.metadata
    /\ ~agg_files.scenes_dir
    /\ agg_error = Some("scenes directory not found")
    /\ Len(scenes) > 0

\* ---- update_scene_depth_metadata.py, stated from the specification text
\* the number of scenes the metadata names
RefSceneCount ==
    IF usm_metadata.scene_count # None /\ The(usm_metadata.scene_count) > 0
    THEN The(usm_metadata.scene_count)
    ELSE IF usm_metadata.scene_timestamps = None THEN 0
         ELSE Len(The(usm_metadata.scene_timestamps))

\* the depth array of scene i, if the scene has one that can be read
RefSceneDepth(i) ==
    IF i > Len(usm_scenes) \/ ~usm_scenes[i].dir THEN None
    ELSE LET f == IF usm_scenes[i].mini # None THEN usm_scenes[i].mini
                  ELSE usm_scenes[i].plain
         IN  IF f = None THEN None
             ELSE IF The(f).kind = "array" /\ Len(The(f).depth) > 0
                  THEN Some(The(f).depth) ELSE None

\* 100 times the 35th percentile of the two pixels of a frame
RefFramePercentile(frame) ==
    LET lo == RefMin({frame[p] : p \in Pixels})
        hi == RefMax({frame[p] : p \in Pixels})
    IN  100 * lo + Percentile * (hi - lo)

\* C21: when the script has written the metadata, each of the three lists has
\* scene_count entries; entry i is scene i's minimum, maximum and the 35th
\* percentile of its middle frame, or 1.0, 10.0, 3.0 when the scene has no
\* readable depth; every other key is as it was read.
C21_ListsPerScene ==
    usm_written # None =>
        LET w == The(usm_written)
            lists == <<The(w.scene_min_depths), The(w.scene_max_depths),
                       The(w.scene_screen_dists)>>
        IN  /\ \A l \in 1..3 : Len(lists[l]) = RefSceneCount
            /\ \A i \in 1..RefSceneCount :
                   IF RefSceneDepth(i) = None
                   THEN /\ lists[1][i] = 100
                        /\ lists[2][i] = 1000
                        /\ lists[3][i] = 300
                   ELSE LET d == The(RefSceneDepth(i))
                            vals == UNION {{d[f][p] : p \in Pixels} : f \in 1..Len(d)}
                        IN  /\ lists[1][i] = 100 * RefMin(vals)
                            /\ lists[2][i] = 100 * RefMax(vals)
                            /\ lists[3][i] = RefFramePercentile(d[(Len(d) \div 2) + 1])
            /\ w.scene_count = usm_metadata.scene_count
            /\ w.scene_timestamps = usm_metadata.scene_timestamps
            /\ w.fps = usm_metadata.fps

\* two scenes counted through scene_timestamps, the first with a three-frame
\* array whose middle frame differs from the others, the second without depth
C21_Witness ==
    /\ usm_written # None
    /\ usm_metadata.scene_count = None
    /\ RefSceneCount = 2
    /\ RefSceneDepth(1) # None
    /\ Len(The(RefSceneDepth(1))) = 3
    /\ RefSceneDepth(2) = None
    /\ usm_metadata.scene_min_depths # None
    /\ The(The(usm_written).scene_screen_dists)[1] = 270


\* ---- main() of process_depth_npz.py: export.zip
\* C22: export.zip exists only when --export was given, the depth video was
\* encoded and metadata.json was updated; it then holds exactly metadata.json,
\* the reference video as rgb.mp4 and the encoded video as depth.mp4.
C22_ExportOnlyOnRequest ==
    /\ export_zip # None =>
           /\ args_export
           /\ ffmpeg_in # None
           /\ exception = None
           /\ metadata_out # None
           /\ {m.arcname : m \in The(export_zip)} = {"metadata.json", "rgb.mp4", "depth.mp4"}
           /\ Cardinality(The(export_zip)) = 3
           /\ \A m \in The(export_zip) :
                  m.file = (CASE m.arcname = "metadata.json" -> "metadata_file"
                              [] m.arcname = "rgb.mp4" -> "rgb_video"
                              [] m.arcname = "depth.mp4" -> "output_video")
    /\ pc = "done" => export_zip # None

C22_Witness == export_zip # None /\ args_export /\ pc = "done"


\* ---- frame selection for a shorter target
\* whether out[k..] can be read off src[from..] in order, each output frame
\* from a later source frame than the one before
RECURSIVE SelectedInOrder(_, _, _, _)
SelectedInOrder(out, src, k, from) ==
    IF k > Len(out) THEN TRUE
    ELSE LET later == {i \in from..Len(src) : src[i] = out[k]}
         IN  IF later = {} THEN FALSE
             ELSE SelectedInOrder(out, src, k + 1, RefMin(later) + 1)

\* C23 as claimed: for some N (the length of the array at hand, or any other
\* length up to MaxRampFrames) and some T < N the index sequence repeats a
\* source index or is not non-decreasing.
C23_SomeTargetRepeats ==
    \E N \in (2..MaxRampFrames) \cup {TotalFrames} :
        \E T \in 2..(N - 1) :
            \E k \in 0..(T - 2) :
                LinspaceIndex(N, T, k + 1) <= LinspaceIndex(N, T, k)

\* C23 as amended: for every N and every T < N the index sequence is strictly
\* increasing: no source frame is used twice and the order of the frames is
\* kept; the sequence starts at 0 and, for T >= 2, ends at N - 1.
C23_StrictlyIncreasing ==
    (pc = "encode" /\ target_frames # None /\ TargetT < TotalFrames) =>
        /\ Len(normalized) = TargetT
        /\ SelectedInOrder(normalized, pre_reconcile, 1, 1)
        /\ TargetT >= 1 => normalized[1] = pre_reconcile[1]
        /\ TargetT >= 2 => normalized[TargetT] = pre_reconcile[TotalFrames]
        /\ \A k \in 0..(TargetT - 2) :
               LinspaceIndex(TotalFrames, TargetT, k) < LinspaceIndex(TotalFrames, TargetT, k + 1)

\* 31 frames, all different, cut to 23: the output frames are all different
C23_Witness ==
    /\ pc = "encode"
    /\ target_frames = Some(23)
    /\ Len(pre_reconcile) = 31
    /\ \A i, j \in 1..31 : i # j => pre_reconcile[i] # pre_reconcile[j]
    /\ \A i, j \in 1..23 : i # j => normalized[i] # normalized[j]


\* ---- degenerate ranges
\* the frame ranges normalized with one minimum and maximum: the scenes in
\* per-scene mode, the whole array otherwise (0-based, end exclusive)
NormRanges ==
    IF NumScenes >= 2
    THEN {<<RefStart(The(scene_timestamps), fps, TotalFrames, i),
            RefEnd(The(scene_timestamps), fps, TotalFrames, i)>> : i \in 1..NumScenes}
    ELSE {<<0, TotalFrames>>}

\* C24: when all values of a scene (of the whole array in global mode) are
\* equal, the normalization raises nothing, the range used is 1e-6, and
\* every pixel of that scene is 0 in the output.
C24_ZeroRangeGivesZero ==
    \A r \in NormRanges :
        (r[1] < r[2] /\ Cardinality(RefVals(processed_frames, r[1], r[2])) = 1) =>
            LET v == RefMin(RefVals(processed_frames, r[1], r[2]))
            IN  /\ DepthRange(v, v) = [num |-> 1, den |-> EpsDen]
                /\ exception \notin {Some("ValueError"), Some("ZeroDivisionError")}
                /\ pc \in {"reconcile", "encode", "returned"} =>
                       \A f \in (r[1] + 1)..r[2] : \A p \in Pixels : normalized[f][p] = 0

\* a scene of constant depth next to a scene that uses the full range
C24_Witness ==
    /\ pc = "reconcile"
    /\ NumScenes >= 2
    /\ \E r \in NormRanges :
           /\ r[1] < r[2]
           /\ Cardinality(RefVals(processed_frames, r[1], r[2])) = 1
           /\ RefMin(RefVals(processed_frames, r[1], r[2])) > 0
           /\ \A f \in (r[1] + 1)..r[2] : \A p \in Pixels : normalized[f][p] = 0
    /\ \E f \in DOMAIN normalized : \E p \in Pixels : normalized[f][p] = 255


\* ---- the statistics lists
\* the pixel values of frames s .. e-1 (0-based), one after the other
RefFlat(frames, s, e) ==
    [j \in 1..(2 * (e - s)) |-> frames[s + 1 + ((j - 1) \div 2)][((j - 1) % 2) + 1]]

\* the j-th element (1-based) of q in ascending order: fewer than j elements
\* lie below it and at least j do not exceed it
RefRanked(q, j) ==
    CHOOSE v \in {q[i] : i \in 1..Len(q)} :
        /\ Cardinality({i \in 1..Len(q) : q[i] < v}) < j
        /\ Cardinality({i \in 1..Len(q) : q[i] <= v}) >= j

\* 100 times the 35th percentile of a non-empty sequence: the value at
\* position 0.35 * (length - 1) of the ascending order, interpolated between
\* neighbours
RefPercentile35(q) ==
    LET pos == 35 * (Len(q) - 1)
        j   == (pos \div 100) + 1
    IN  IF pos % 100 = 0 THEN 100 * RefRanked(q, j)
        ELSE 100 * RefRanked(q, j)
                 + (pos % 100) * (RefRanked(q, j + 1) - RefRanked(q, j))

\* C25: for a non-empty timestamp list the three statistics lists have one
\* entry per timestamp, entry i describing scene i; a non-empty scene's
\* entries are the minimum, maximum and 35th percentile of the transformed
\* values of its frames as they were before normalization and before the
\* frame count was reconciled, and minimum <= screen distance <= maximum.
C25_StatsPerTimestamp ==
    (pc # "stats" /\ NumScenes >= 1) =>
        /\ Len(processed_scene_stats.min_depths) = NumScenes
        /\ Len(processed_scene_stats.max_depths) = NumScenes
        /\ Len(processed_scene_stats.screen_dists) = NumScenes
        /\ \A i \in 1..NumScenes :
               LET ts == The(scene_timestamps)
                   s  == RefStart(ts, fps, TotalFrames, i)
                   e  == RefEnd(ts, fps, TotalFrames, i)
               IN  s < e =>
                       LET q == RefFlat(processed_frames, s, e)
                       IN  /\ processed_scene_stats.min_depths[i] = 100 * RefRanked(q, 1)
                           /\ processed_scene_stats.max_depths[i] = 100 * RefRanked(q, Len(q))
                           /\ processed_scene_stats.screen_dists[i] = RefPercentile35(q)
                           /\ processed_scene_stats.min_depths[i]
                                  <= processed_scene_stats.screen_dists[i]
                           /\ processed_scene_stats.screen_dists[i]
                                  <= processed_scene_stats.max_depths[i]

\* two scenes of a ramp whose length was then changed: the second scene's
\* percentile lies strictly between its minimum and maximum
C25_Witness ==
    /\ pc = "encode"
    /\ NumScenes = 2
    /\ target_frames # None
    /\ TargetT < TotalFrames
    /\ TotalFrames >= 4
    /\ processed_scene_stats.min_depths[2] < processed_scene_stats.screen_dists[2]
    /\ processed_scene_stats.screen_dists[2] < processed_scene_stats.max_depths[2]
    /\ processed_scene_stats.screen_dists[2] % 100 # 0


\* ---- create_depth_npz.py: the conf entry
\* the scenes that put an array into depth.npz: a loaded npz or a placeholder
Aggregated == {i \in 1..Len(scenes) : scenes[i].kind \in {"npz", "video"}}

\* the aggregated scenes that come with a confidence array
WithConf == {i \in Aggregated : scenes[i].kind = "video" \/ scenes[i].conf}

\* C26: when the written depth.npz has a conf entry, every aggregated scene
\* (loaded or placeholder) contributed a conf array, in the order of the
\* depth arrays, and conf has as many frames as depth; when some aggregated
\* scene has no conf, the output has no conf entry.
C26_ConfAllOrNothing ==
    output_npz # None =>
        LET out == The(output_npz)
        IN  /\ out.conf # None =>
                   /\ WithConf = Aggregated
                   /\ The(out.conf).frames = The(out.depth).frames
                   /\ Len(The(out.conf).parts) = Len(The(out.depth).parts)
                   /\ \A k \in 1..Len(The(out.conf).parts) :
                          /\ The(out.conf).parts[k].scene = The(out.depth).parts[k].scene
                          /\ The(out.conf).parts[k].frames = The(out.depth).parts[k].frames
            /\ WithConf # Aggregated => out.conf = None

\* a loaded scene with conf followed by a placeholder: conf is written
C26_Witness ==
    /\ output_npz # None
    /\ The(output_npz).conf # None
    /\ \E i, j \in Aggregated :
           /\ i < j
           /\ scenes[i].kind = "npz"
           /\ scenes[j].kind = "video"
           /\ scenes[j].frames > 0


\* ---- the scene ranges as a partition
\* the scenes whose clamped range holds frame f (1-based)
ScenesOf(f) ==
    {i \in 1..NumScenes :
        /\ RefStart(The(scene_timestamps), fps, TotalFrames, i) < f
        /\ f <= RefEnd(The(scene_timestamps), fps, TotalFrames, i)}

\* C27: in per-scene normalization (timestamps strictly increasing) the
\* clamped scene ranges follow one another without gap or overlap from the
\* start of scene 1 to the last frame: every frame from the first scene's
\* start on lies in exactly one scene and is normalized by it, and every
\* frame before that start is 0 in the output.
C27_ScenesPartitionFrames ==
    (pc = "reconcile" /\ NumScenes >= 2) =>
        LET ts    == The(scene_timestamps)
            first == RefStart(ts, fps, TotalFrames, 1)
        IN  /\ \A i \in 1..NumScenes :
                   RefStart(ts, fps, TotalFrames, i) <= RefEnd(ts, fps, TotalFrames, i)
            /\ \A i \in 1..(NumScenes - 1) :
                   RefEnd(ts, fps, TotalFrames, i) = RefStart(ts, fps, TotalFrames, i + 1)
            /\ RefEnd(ts, fps, TotalFrames, NumScenes) = TotalFrames
            /\ \A f \in 1..TotalFrames :
                   IF f <= first
                   THEN /\ ScenesOf(f) = {}
                        /\ \A p \in Pixels : normalized[f][p] = 0
                   ELSE /\ Cardinality(ScenesOf(f)) = 1
                        /\ \A i \in ScenesOf(f) : \A p \in Pixels :
                               LET s == RefStart(ts, fps, TotalFrames, i)
                                   e == RefEnd(ts, fps, TotalFrames, i)
                               IN  normalized[f][p] =
                                       RefScale(processed_frames[f][p],
                                                RefMin(RefVals(processed_frames, s, e)),
                                                RefMax(RefVals(processed_frames, s, e)))

\* the first scene starts at the second frame: the first frame, which is
\* not flat, stays 0 and the second is normalized
C27_Witness ==
    /\ pc = "reconcile"
    /\ NumScenes >= 2
    /\ RefStart(The(scene_timestamps), fps, TotalFrames, 1) = 1
    /\ TotalFrames = 2
    /\ \E p, q \in Pixels : processed_frames[1][p] # processed_frames[1][q]
    /\ \A p \in Pixels : normalized[1][p] = 0
    /\ \E p \in Pixels : normalized[2][p] = 255


\* ---- statistics and normalizer
\* C28: with two or more timestamps, every non-empty scene is mapped to
\* 0..255 by the very minimum and maximum that the statistics record for it
\* (over the same frames), and these are the values written to
\* processed_scene_min_depths / processed_scene_max_depths.
C28_StatsMatchNormalizer ==
    (NumScenes >= 2 /\ pc \in {"reconcile", "encode", "returned", "updated", "done"}) =>
        /\ \A i \in 1..NumScenes :
               LET s  == RefStart(The(scene_timestamps), fps, TotalFrames, i)
                   e  == RefEnd(The(scene_timestamps), fps, TotalFrames, i)
                   lo == processed_scene_stats.min_depths[i]
                   hi == processed_scene_stats.max_depths[i]
               IN  s < e =>
                       \A f \in (s + 1)..e : \A p \in Pixels :
                           /\ lo <= 100 * processed_frames[f][p]
                           /\ 100 * processed_frames[f][p] <= hi
                           /\ normalized[f][p] =
                                  RefScale(100 * processed_frames[f][p], lo, hi)
        /\ metadata_out # None =>
               /\ The(metadata_out).processed_scene_min_depths =
                      Some(processed_scene_stats.min_depths)
               /\ The(metadata_out).processed_scene_max_depths =
                      Some(processed_scene_stats.max_depths)

\* two scenes of one frame each, written to metadata.json: the second
\* scene's own minimum, not the array's, maps to 0
C28_Witness ==
    /\ pc \in {"updated", "done"}
    /\ NumScenes >= 2
    /\ TotalFrames = 2
    /\ \E i \in 1..NumScenes :
           /\ RefStart(The(scene_timestamps), fps, TotalFrames, i) = 1
           /\ RefEnd(The(scene_timestamps), fps, TotalFrames, i) = 2
           /\ The(The(metadata_out).processed_scene_min_depths)[i] = 100
           /\ The(The(metadata_out).processed_scene_max_depths)[i] = 200
           /\ \E p \in Pixels : normalized[2][p] = 0
           /\ \E p \in Pixels : normalized[2][p] = 255
           /\ \E p \in Pixels : processed_frames[1][p] = 0


\* ---- metadata.json after the run
\* metadata.json as main() found it
MetadataFound ==
    [fps |-> metadata.fps,
     scene_timestamps |-> metadata.scene_timestamps,
     scene_count |-> metadata_before.scene_count,
     postprocessing |-> metadata_before.postprocessing,
     processed_scene_min_depths |-> metadata_before.processed_scene_min_depths,
     processed_scene_max_depths |-> metadata_before.processed_scene_max_depths,
     processed_scene_screen_dists |-> metadata_before.processed_scene_screen_dists]

\* C29: the metadata written back has postprocessing set to exactly the
\* blur_sigma, log_base and sharpen of the run; every other key it had is
\* unchanged; a processed_scene_* key is written only when its list is not
\* empty, so that without scene timestamps the processed_scene_* values of
\* an earlier run stay as they were.
C29_PostprocessingKeys ==
    metadata_out # None =>
        LET w == The(metadata_out)
        IN  /\ w.postprocessing =
                   Some([blur_sigma |-> blur_sigma, log_base |-> log_base,
                         sharpen |-> sharpen])
            /\ w.fps = MetadataFound.fps
            /\ w.scene_timestamps = MetadataFound.scene_timestamps
            /\ w.scene_count = MetadataFound.scene_count
            /\ w.processed_scene_min_depths =
                   IF Len(processed_scene_stats.min_depths) > 0
                   THEN Some(processed_scene_stats.min_depths)
                   ELSE MetadataFound.processed_scene_min_depths
            /\ w.processed_scene_max_depths =
                   IF Len(processed_scene_stats.max_depths) > 0
                   THEN Some(processed_scene_stats.max_depths)
                   ELSE MetadataFound.processed_scene_max_depths
            /\ w.processed_scene_screen_dists =
                   IF Len(processed_scene_stats.screen_dists) > 0
                   THEN Some(processed_scene_stats.screen_dists)
                   ELSE MetadataFound.processed_scene_screen_dists
            /\ NumScenes = 0 =>
                   /\ w.processed_scene_min_depths = MetadataFound.processed_scene_min_depths
                   /\ w.processed_scene_max_depths = MetadataFound.processed_scene_max_depths
                   /\ w.processed_scene_screen_dists =
                          MetadataFound.processed_scene_screen_dists

\* a run without scene timestamps on a metadata.json that an earlier run
\* with other settings has written
C29_Witness ==
    /\ metadata_out # None
    /\ NumScenes = 0
    /\ metadata_before = StaleMetadata
    /\ The(metadata_out).postprocessing # metadata_before.postprocessing
    /\ The(metadata_out).processed_scene_min_depths = Some(<<0>>)

\* C30: metadata.json is written only after the depth video was encoded
\* successfully; when main() ends with an exception (missing file, missing
\* 'depth' entry, unsupported shape, encoder failure) metadata.json keeps
\* the content it had and export.zip is not created.
C30_MetadataOnlyAfterEncode ==
    /\ metadata_out # None =>
           /\ ffmpeg_in # None
           /\ exception = None
           /\ pc \in {"updated", "done"}
    /\ exception # None =>
           /\ metadata_out = None
           /\ export_zip = None
    /\ pc \in {"files", "main", "load", "shape", "transform", "stats", "normalize",
               "reconcile", "encode", "returned"} =>
           /\ metadata_out = None
           /\ export_zip = None

\* the encoder fails on a run with --export whose metadata.json is readable
C30_Witness ==
    /\ exception = Some("RuntimeError")
    /\ ffmpeg_in # None
    /\ args_export
    /\ metadata.readable
    /\ metadata_out = None
    /\ export_zip = None

====
